---- MODULE Spec2Model ----
(***************************************************************************)
(* Model of the SMG CSV transformation engine of smg-automation-pipeline   *)
(* (transformSMGCSV and its helpers parseHeaders, extractDate, cleanValue, *)
(* parseCSVLine and normalizeDateForStorageUTC), of the store resolution   *)
(* and record mapping of POST /smg-transform, and of the validation and    *)
(* write modes of POST /smg-upload.                                        *)
(*                                                                         *)
(* A JavaScript string is a sequence of one-character strings, so that     *)
(* split, trim, toLowerCase, includes, parseFloat, padStart and the date   *)
(* regular expression are computed character by character.                 *)
(* A JavaScript number is a decimal fraction [num, den] (den a power of    *)
(* ten); den = 0 stands for NaN.  The cells the model draws have a finite  *)
(* decimal expansion whose products are exact in IEEE doubles.             *)
(***************************************************************************)
EXTENDS Integers, Sequences, FiniteSets, TLC

(***************************************************************************)
(* JavaScript values and string primitives                                 *)
(***************************************************************************)

\* undefined and null: one-element sequences no character string equals
Undefined == <<"undefined">>

Null == <<"null">>

\* null where the source expects an object (a match result, a return value)
NullObject == [null |-> TRUE]

Digit == {"0","1","2","3","4","5","6","7","8","9"}

\* characters String.prototype.trim and the regex class \s remove
WhiteSpace == {" ", "\t", "\r", "\n"}

UpperCase == <<"A","B","C","D","E","F","G","H","I","J","K","L","M",
               "N","O","P","Q","R","S","T","U","V","W","X","Y","Z">>

LowerCase == <<"a","b","c","d","e","f","g","h","i","j","k","l","m",
               "n","o","p","q","r","s","t","u","v","w","x","y","z">>

\* s[i] of JavaScript: undefined outside the string or array
At(s, i) == IF i \in 1..Len(s) THEN s[i] ELSE Undefined

Min(S) == CHOOSE x \in S : \A y \in S : x <= y

Max(S) == CHOOSE x \in S : \A y \in S : x >= y

\* first position from p upwards that holds no white space, Len(s) + 1 if none
RECURSIVE SkipSpace(_, _)
SkipSpace(s, p) ==
  IF p > Len(s) THEN Len(s) + 1
  ELSE IF s[p] \in WhiteSpace THEN SkipSpace(s, p + 1)
  ELSE p

\* last position from p downwards that holds no white space, 0 if none
RECURSIVE SkipSpaceBack(_, _)
SkipSpaceBack(s, p) ==
  IF p < 1 THEN 0
  ELSE IF s[p] \in WhiteSpace THEN SkipSpaceBack(s, p - 1)
  ELSE p

\* String.prototype.trim
Trim(s) == SubSeq(s, SkipSpace(s, 1), SkipSpaceBack(s, Len(s)))

\* line.replace(/\r/g, '')
RemoveCR(s) == SelectSeq(s, LAMBDA c : c # "\r")

\* first position from p upwards that holds sep, Len(s) + 1 if none
RECURSIVE IndexFrom(_, _, _)
IndexFrom(s, sep, p) ==
  IF p > Len(s) THEN Len(s) + 1
  ELSE IF s[p] = sep THEN p
  ELSE IndexFrom(s, sep, p + 1)

\* String.prototype.split(sep) for a one-character separator
RECURSIVE SplitFrom(_, _, _)
SplitFrom(s, sep, start) ==
  LET hit == IndexFrom(s, sep, start)
  IN  IF hit > Len(s) THEN << SubSeq(s, start, Len(s)) >>
      ELSE << SubSeq(s, start, hit - 1) >> \o SplitFrom(s, sep, hit + 1)

Split(s, sep) == SplitFrom(s, sep, 1)

ToLowerChar(c) ==
  IF \E k \in 1..26 : UpperCase[k] = c
  THEN LowerCase[CHOOSE k \in 1..26 : UpperCase[k] = c]
  ELSE c

\* String.prototype.toLowerCase
ToLowerCase(s) == [k \in 1..Len(s) |-> ToLowerChar(s[k])]

\* String.prototype.includes
Includes(s, sub) ==
  \E p \in 1..(Len(s) - Len(sub) + 1) : SubSeq(s, p, p + Len(sub) - 1) = sub

\* String.prototype.padStart(2, '0')
PadStart2(s) ==
  IF Len(s) >= 2 THEN s
  ELSE IF Len(s) = 1 THEN <<"0">> \o s
  ELSE <<"0","0">>

DigitVal(c) == CHOOSE d \in 0..9 : <<"0","1","2","3","4","5","6","7","8","9">>[d + 1] = c

\* template-literal conversion of a non-negative integer
RECURSIVE IntToStr(_)
IntToStr(n) ==
  IF n < 10 THEN << <<"0","1","2","3","4","5","6","7","8","9">>[n + 1] >>
  ELSE IntToStr(n \div 10) \o IntToStr(n % 10)

\* template-literal conversion of a string or undefined
ToStr(v) == IF v = Undefined THEN <<"u","n","d","e","f","i","n","e","d">> ELSE v

\* character at 1-based position i, "" outside the string
CharAt(s, i) == IF i \in 1..Len(s) THEN s[i] ELSE ""

(***************************************************************************)
(* Numbers: [num, den] is num/den, den a power of ten; den = 0 is NaN      *)
(***************************************************************************)

NaN == [num |-> 0, den |-> 0]

Zero == [num |-> 0, den |-> 1]

isNaN(x) == x.den = 0

\* the same value with the smallest power-of-ten denominator
RECURSIVE Norm(_, _)
Norm(num, den) ==
  IF den > 1 /\ num % 10 = 0 THEN Norm(num \div 10, den \div 10)
  ELSE [num |-> num, den |-> den]

Int2Num(n) == [num |-> n, den |-> 1]

\* responseCount * responsePercent
Mul(a, b) ==
  IF isNaN(a) \/ isNaN(b) THEN NaN ELSE Norm(a.num * b.num, a.den * b.den)

\* Math.round: floor(x + 0.5), ties towards +Infinity
MathRound(x) == (2 * x.num + x.den) \div (2 * x.den)

\* length of the run of digits of s that starts at position p
RECURSIVE DigitRunLen(_, _)
DigitRunLen(s, p) ==
  IF p \in 1..Len(s) /\ s[p] \in Digit THEN 1 + DigitRunLen(s, p + 1) ELSE 0

RECURSIVE DigitsVal(_)
DigitsVal(ds) ==
  IF ds = <<>> THEN 0
  ELSE 10 * DigitsVal(SubSeq(ds, 1, Len(ds) - 1)) + DigitVal(ds[Len(ds)])

RECURSIVE Pow10(_)
Pow10(k) == IF k = 0 THEN 1 ELSE 10 * Pow10(k - 1)

\* parseFloat: optional sign, digits, optional fraction; the longest such
\* prefix after leading white space, NaN when it holds no digit.  Exponents
\* and 'Infinity' are left out: no cell drawn below holds them.
ParseFloat(s) ==
  LET p0    == SkipSpace(s, 1)
      sgn   == IF CharAt(s, p0) = "-" THEN -1 ELSE 1
      p1    == IF CharAt(s, p0) \in {"-", "+"} THEN p0 + 1 ELSE p0
      ilen  == DigitRunLen(s, p1)
      dot   == CharAt(s, p1 + ilen) = "."
      flen  == IF dot THEN DigitRunLen(s, p1 + ilen + 1) ELSE 0
      ipart == DigitsVal(SubSeq(s, p1, p1 + ilen - 1))
      fpart == DigitsVal(SubSeq(s, p1 + ilen + 1, p1 + ilen + flen))
  IN  IF ilen = 0 /\ flen = 0 THEN NaN
      ELSE Norm(sgn * (ipart * Pow10(flen) + fpart), Pow10(flen))

\* faulty variant: the isNaN test is missing
cleanValueNaN(v) ==
  IF v = <<"*","*">> \/ v = <<>> \/ v = Undefined \/ v = Null
  THEN Zero
  ELSE ParseFloat(v)

\* cleanValue: '**', '', undefined, null and unparsable cells are 0
cleanValue(v) ==
  IF v = <<"*","*">> \/ v = <<>> \/ v = Undefined \/ v = Null
  THEN Zero
  ELSE LET num == ParseFloat(v)
       IN  IF isNaN(num) THEN Zero ELSE num

\* parseCSVLine: split on commas, trim every cell
parseCSVLine(line) ==
  LET cells == Split(line, ",")
  IN  [k \in 1..Len(cells) |-> Trim(cells[k])]

\* arr[i] with the 0-based index of the source
Get(arr, i) == At(arr, i + 1)

(***************************************************************************)
(* Dates                                                                   *)
(***************************************************************************)

\* faulty variant: month and day are not padded
normalizeDateNoPad(d) ==
  LET slash == Split(d, "/")
      dash  == Split(d, "-")
  IN  IF Includes(d, <<"/">>)
      THEN ToStr(Get(slash, 2)) \o <<"-">> \o ToStr(Get(slash, 0))
             \o <<"-">> \o ToStr(Get(slash, 1))
      ELSE ToStr(Get(dash, 0)) \o <<"-">> \o ToStr(Get(dash, 1))
             \o <<"-">> \o ToStr(Get(dash, 2))

\* normalizeDateForStorageUTC
normalizeDateForStorageUTC(dateStr) ==
  LET slash == Split(dateStr, "/")
      dash  == Split(dateStr, "-")
      month == IF Includes(dateStr, <<"/">>) THEN PadStart2(Get(slash, 0))
               ELSE IF Includes(dateStr, <<"-">>) THEN Get(dash, 1)
               ELSE Undefined
      day   == IF Includes(dateStr, <<"/">>) THEN PadStart2(Get(slash, 1))
               ELSE IF Includes(dateStr, <<"-">>) THEN Get(dash, 2)
               ELSE Undefined
      year  == IF Includes(dateStr, <<"/">>) THEN Get(slash, 2)
               ELSE IF Includes(dateStr, <<"-">>) THEN Get(dash, 0)
               ELSE Undefined
  IN  ToStr(year) \o <<"-">> \o ToStr(month) \o <<"-">> \o ToStr(day)

\* faulty variant: only the slash form is split, padStart fails on every other date
dateTypeErrorNoSlash(dateStr) == ~Includes(dateStr, <<"/">>)

\* normalizeDateForStorageUTC raises a TypeError: padStart is called on a
\* missing part of the split
dateTypeError(dateStr) ==
  /\ Includes(dateStr, <<"/">>)
  /\ \/ Get(Split(dateStr, "/"), 0) = Undefined
     \/ Get(Split(dateStr, "/"), 1) = Undefined

\* \d{m}\/\d{d}\/\d{4} matches s at position p
DateTokenAt(s, p, m, d) ==
  /\ CharAt(s, p + m) = "/"
  /\ CharAt(s, p + m + 1 + d) = "/"
  /\ DigitRunLen(s, p) >= m
  /\ DigitRunLen(s, p + m + 1) >= d
  /\ DigitRunLen(s, p + m + d + 2) >= 4

\* the <<m, d>> digit counts with which (\d{1,2}\/\d{1,2}\/\d{4}) matches at p
DateTokenLens(s, p) ==
  {md \in {<<1,1>>, <<1,2>>, <<2,1>>, <<2,2>>} : DateTokenAt(s, p, md[1], md[2])}

\* the first group matches at p with digit counts md and the rest of the
\* pattern, \s*-\s* (greedy) and the second group, matches behind it
RangeWith(s, p, md) ==
  LET q == SkipSpace(s, p + md[1] + md[2] + 6)
  IN  /\ CharAt(s, q) = "-"
      /\ DateTokenLens(s, SkipSpace(s, q + 1)) # {}

\* the whole pattern matches with its first group starting at p
RangeAt(s, p) ==
  s[p] \in Digit /\ \E md \in DateTokenLens(s, p) : RangeWith(s, p, md)

\* extractDate: the leftmost match of
\* /(\d{1,2}\/\d{1,2}\/\d{4})\s*-\s*(\d{1,2}\/\d{1,2}\/\d{4})/, null if none
extractDate(titleLine) ==
  LET starts == {p \in 1..Len(titleLine) : RangeAt(titleLine, p)}
  IN  IF starts = {} THEN NullObject
      ELSE LET p   == Min(starts)
               md1 == CHOOSE md \in DateTokenLens(titleLine, p) :
                        RangeWith(titleLine, p, md)
               e1  == p + md1[1] + md1[2] + 6
               p2  == SkipSpace(titleLine, SkipSpace(titleLine, e1) + 1)
               md2 == CHOOSE md \in DateTokenLens(titleLine, p2) : TRUE
               m1  == SubSeq(titleLine, p, e1 - 1)
               m2  == SubSeq(titleLine, p2, p2 + md2[1] + md2[2] + 5)
           IN  [startDate |-> m1, endDate |-> m2,
                dateRange |-> m1 \o <<" ","-"," ">> \o m2]

(***************************************************************************)
(* Header parser                                                           *)
(***************************************************************************)

\* faulty variant: the score columns are taken in ascending score order
scoreIndicesAscending(i) ==
  (1 :> i + 1) @@ (2 :> i + 2) @@ (3 :> i + 3) @@ (4 :> i + 4) @@ (5 :> i + 5)

\* scoreIndices of the metric whose 'n' marker is at column i
scoreIndices(i) ==
  (5 :> i + 1) @@ (4 :> i + 2) @@ (3 :> i + 3) @@ (2 :> i + 4) @@ (1 :> i + 5)

\* the object pushed onto metrics at column i
Metric(currentCategory, i) ==
  [name |-> currentCategory, startIndex |-> i, responseCountIndex |-> i,
   scoreIndices |-> scoreIndices(i)]

\* number of header columns the loop of parseHeaders runs over
scanLimit(categories, subHeaders) == Len(categories)

\* for (let i = 1; i < categories.length; i++) { ... }
RECURSIVE parseHeadersLoop(_, _, _, _, _)
parseHeadersLoop(categories, subHeaders, i, currentCategory, metrics) ==
  IF ~(i < scanLimit(categories, subHeaders)) THEN metrics
  ELSE LET cat == IF Get(categories, i) # <<>> THEN Get(categories, i)
                  ELSE currentCategory
       IN  parseHeadersLoop(categories, subHeaders, i + 1, cat,
             IF cat # <<>> /\ Get(subHeaders, i) = <<"n">>
             THEN Append(metrics, Metric(cat, i))
             ELSE metrics)

\* parseHeaders
parseHeaders(headerLine1, headerLine2) ==
  IF headerLine1 = <<>> \/ headerLine2 = <<>> THEN <<>>
  ELSE parseHeadersLoop(parseCSVLine(headerLine1), parseCSVLine(headerLine2),
                        1, <<>>, <<>>)

(***************************************************************************)
(* Transformation engine                                                   *)
(***************************************************************************)

\* csvContent.split('\n').map(line => line.replace(/\r/g, '').trim())
\*           .filter(line => line)
splitLines(content) ==
  LET raw == Split(content, "\n")
      cln == [k \in 1..Len(raw) |-> Trim(RemoveCR(raw[k]))]
  IN  SelectSeq(cln, LAMBDA line : line # <<>>)

\* fewest lines transformSMGCSV accepts
MinLines == 4

\* faulty variant: the line-count check is off by one
tooFewLinesOffByOne(ls) == Len(ls) < MinLines - 1

\* lines.length < 4
tooFewLines(ls) == Len(ls) < MinLines

\* a JavaScript value is truthy
Truthy(v) == v # Null /\ v # Undefined /\ v # <<>>

\* faulty variant: the placeholder counts lines from one
storeLocationOneBased(values, i) ==
  IF Truthy(Get(values, 0)) THEN Get(values, 0)
  ELSE <<"U","n","k","n","o","w","n","_">> \o IntToStr(i + 1)

\* values[0] || `Unknown_${i}`
storeLocationOf(values, i) ==
  IF Truthy(Get(values, 0)) THEN Get(values, 0)
  ELSE <<"U","n","k","n","o","w","n","_">> \o IntToStr(i)

\* the test that makes the row loop continue without emitting
skipRow(storeLocation) ==
  \/ Includes(ToLowerCase(storeLocation), <<"s","t","o","r","e"," ","i","d">>)
  \/ storeLocation = <<>>

\* faulty variant: the score loop counts down from 5
scoreOrderDescending == <<5, 4, 3, 2, 1>>

\* order in which the score loop visits the scores
scoreOrder == <<1, 2, 3, 4, 5>>

\* faulty variant: the percent is divided by 100 before rounding
actualResponseCountPercent(responseCount, responsePercent) ==
  MathRound(Mul(Mul(responseCount, responsePercent), [num |-> 1, den |-> 100]))

\* Math.round(responseCount * responsePercent)
actualResponseCount(responseCount, responsePercent) ==
  MathRound(Mul(responseCount, responsePercent))

\* faulty variant: total_responses and response_count are swapped
RecordSwappedCounts(values, storeLocation, startDate, metric, score) ==
  LET responseCount   == cleanValue(Get(values, metric.responseCountIndex))
      responsePercent == cleanValue(Get(values, metric.scoreIndices[score]))
  IN  [store_location   |-> storeLocation,
       date             |-> normalizeDateForStorageUTC(startDate),
       metric_name      |-> metric.name,
       question         |-> metric.name,
       score            |-> score,
       response_percent |-> responsePercent,
       response_count   |-> MathRound(responseCount),
       total_responses  |->
         Int2Num(actualResponseCount(responseCount, responsePercent))]

\* the object pushed for one score of one metric of one row
Record(values, storeLocation, startDate, metric, score) ==
  LET responseCount   == cleanValue(Get(values, metric.responseCountIndex))
      responsePercent == cleanValue(Get(values, metric.scoreIndices[score]))
  IN  [store_location   |-> storeLocation,
       date             |-> normalizeDateForStorageUTC(startDate),
       metric_name      |-> metric.name,
       question         |-> metric.name,
       score            |-> score,
       response_percent |-> responsePercent,
       response_count   |-> actualResponseCount(responseCount, responsePercent),
       total_responses  |-> responseCount]

\* faulty variant: the score loop stops one short (score < 5)
metricRecordsFour(values, storeLocation, startDate, metric) ==
  [k \in 1..(Len(scoreOrder) - 1) |->
     Record(values, storeLocation, startDate, metric, scoreOrder[k])]

\* the five records of one metric: for (let score = 1; score <= 5; score++)
metricRecords(values, storeLocation, startDate, metric) ==
  [k \in 1..Len(scoreOrder) |->
     Record(values, storeLocation, startDate, metric, scoreOrder[k])]

\* faulty variant: a metric whose response-count column lies beyond the
\* row is passed over
RECURSIVE forEachMetricInRange(_, _, _, _, _)
forEachMetricInRange(values, storeLocation, startDate, ms, m) ==
  IF m > Len(ms) THEN <<>>
  ELSE (IF ms[m].responseCountIndex < Len(values)
        THEN metricRecords(values, storeLocation, startDate, ms[m])
        ELSE <<>>)
       \o forEachMetricInRange(values, storeLocation, startDate, ms, m + 1)

\* metrics.forEach(metric => ...) from the m-th metric on
RECURSIVE forEachMetric(_, _, _, _, _)
forEachMetric(values, storeLocation, startDate, ms, m) ==
  IF m > Len(ms) THEN <<>>
  ELSE metricRecords(values, storeLocation, startDate, ms[m])
       \o forEachMetric(values, storeLocation, startDate, ms, m + 1)

\* the records one iteration of the data-line loop appends
rowRecords(dataLine, i, startDate, ms) ==
  LET values        == parseCSVLine(dataLine)
      storeLocation == storeLocationOf(values, i)
  IN  IF Trim(dataLine) = <<>> THEN <<>>
      ELSE IF skipRow(storeLocation) THEN <<>>
      ELSE forEachMetric(values, storeLocation, startDate, ms, 1)

(***************************************************************************)
(* Inputs: the CSV text and the optional fallback date                     *)
(***************************************************************************)

\* a title line with a date range, CRLF line ending
TitleRange ==
  <<"F","u","l","l"," ","S","c","a","l","e"," ","R","e","p","o","r","t",":"," ","6","/","2","6","/","2","0","2","4"," ","-"," ","7","/","1","/","2","0","2","4","\r">>

\* a date range without spaces around the hyphen
TitleTight ==
  <<"S","M","G"," ","1","2","/","5","/","2","0","2","4","-","1","2","/","6","/","2","0","2","4"," ","e","x","p","o","r","t">>

\* a title line without a date range
TitleNoDate ==
  <<"n","o"," ","d","a","t","e","s"," ","h","e","r","e">>

\* a line that is blank after normalization
BlankLine ==
  <<" ","\r">>

\* category row of the test page sample: fewer cells than the sub-header row
HeaderSample ==
  <<",","O","v","e","r","a","l","l"," ","E","x","p","e","r","i","e","n","c","e"," ","-"," ","W","e","e","k","d","a","y","s",",","O","v","e","r","a","l","l"," ","E","x","p","e","r","i","e","n","c","e"," ","-"," ","W","e","e","k","e","n","d","s">>

\* category row as wide as the sub-header row
HeaderWide ==
  <<",","O","v","e","r","a","l","l",",",",",",",",",",",",","F","o","o","d",",",",",",",",",",">>

\* no category above column 1, one category carried over columns 2..4
HeaderLate ==
  <<",",","," ","T","a","s","t","e"," ",",",",">>

\* sub-header row of the test page sample
SubTwo ==
  <<",","n",",","5",",","4",",","3",",","2",",","1",",","n",",","5",",","4",",","3",",","2",",","1">>

\* sub-header row with one marker
SubOne ==
  <<",","n",",","5",",","4",",","3",",","2",",","1">>

\* markers with padding, in upper case and repeated
SubMixed ==
  <<",","n",","," ","n"," ",",","N",",","n">>

\* data row of the test page sample
RowSample ==
  <<"Q","D","O","B","A",",","1","0","0",",","2","0",",","3","0",",","2","5",",","1","5",",","1","0",",","8","0",",","2","5",",","3","5",",","2","0",",","1","5",",","5">>

\* data row with an empty label, fractions, a mask and text
RowNoLabel ==
  <<",","3",",","0",".","5",",","2",".","5",",","*","*",",","a","b","c">>

\* a header row repeated among the data
RowStoreId ==
  <<"S","t","o","r","e"," ","I","D"," ","1","2",",","1",",","1">>

\* padded label, negative count, short row
RowShort ==
  <<" ","S","2"," ",",","-","3",",",".","5",",","1",".","5","x","\r">>

\* fallback date in YYYY-MM-DD form
DateIso ==
  <<"2","0","2","5","-","0","6","-","2","6">>

\* most raw lines of an input text
MaxLines == 5

TitleLines == {TitleRange, TitleTight, TitleNoDate}

CategoryLines == {HeaderSample, HeaderWide, HeaderLate}

SubHeaderLines == {SubTwo, SubOne, SubMixed}

DataLines == {RowSample, RowNoLabel, RowStoreId, RowShort, BlankLine}

\* the lines the k-th raw line of an input is drawn from
LineChoices(k) ==
  IF k = 1 THEN TitleLines
  ELSE IF k = 2 THEN CategoryLines
  ELSE IF k = 3 THEN SubHeaderLines
  ELSE DataLines

RECURSIVE LineSeqs(_)
LineSeqs(n) ==
  IF n = 0 THEN {<<>>}
  ELSE {Append(ls, l) : ls \in LineSeqs(n - 1), l \in LineChoices(n)}

\* the raw lines joined by newlines
RECURSIVE JoinLines(_)
JoinLines(ls) ==
  IF ls = <<>> THEN <<>>
  ELSE IF Len(ls) = 1 THEN ls[1]
  ELSE ls[1] \o <<"\n">> \o JoinLines(Tail(ls))

CsvTexts == {JoinLines(ls) : ls \in UNION {LineSeqs(n) : n \in 0..MaxLines}}

\* targetDate: omitted (null), empty, or a date
FallbackDates == {Null, <<>>, DateIso}

(***************************************************************************)
(* transformSMGCSV as a state machine                                      *)
(***************************************************************************)

VARIABLES csvContent, targetDate, pc, lines, dateInfo, metrics, i,
          transformedData, result, error

\* one call of cleanValue: its argument and what it returned
VARIABLES value, cleaned

transformVars == <<csvContent, targetDate, pc, lines, dateInfo, metrics, i,
                   transformedData, result, error>>

cleanVars == <<value, cleaned>>

\* a date string, what normalizeDateForStorageUTC made of it, and what it
\* made of that
VARIABLES dateString, normalized, renormalized

dateVars == <<dateString, normalized, renormalized>>

\* the number of calls of transformSMGCSV made with the same arguments, and
\* how the call before the current one ended
VARIABLES calls, earlier

callerVars == <<calls, earlier>>

\* store resolution of one record: the rows of the stores table, the
\* record's store_location, the two lookup maps, the store found and the
\* position in the resolution code
VARIABLES stores, storeLocation, storeByNumber, storeByName, storeId, rpc

resolveVars == <<stores, storeLocation, storeByNumber, storeByName, storeId,
                 rpc>>

\* one request to POST /smg-transform: the two body parameters, the
\* position in the handler, the records of transformSMGCSV, the rows the
\* stores query returned, the mapped records and the response sent
VARIABLES csvData, date, hpc, smgRecords, storeRows, finalData, mappedCount,
          response

handlerVars == <<csvData, date, hpc, smgRecords, storeRows, finalData,
                 mappedCount, response>>

\* one request to POST /smg-upload: the body with its mode and, unless left
\* out, its data; the position in the handler, the validation errors
\* collected, the database operations issued so far and the response sent
VARIABLES body, upc, validationErrors, dbOps, uploadResponse

\* the rows of the table daily_cx_scores, and the rows it held when the
\* request arrived
VARIABLES table, tableBefore

uploadVars == <<body, upc, validationErrors, dbOps, uploadResponse, table,
                tableBefore>>

\* one request to POST /smg-pipeline: the body (csvData and, unless left out,
\* dates and uploadMode), the day the clock shows, the position in the
\* handler, the dates being processed and the 1-based position of the current
\* one, the mapped records of all dates, pipelineResults, the operations
\* issued on daily_cx_scores and the response sent
VARIABLES pipelineBody, today, ppc, processingDates, dateIndex,
          allTransformedData, pipelineResults, pipelineOps, pipelineResponse

pipelineVars == <<pipelineBody, today, ppc, processingDates, dateIndex,
                  allTransformedData, pipelineResults, pipelineOps,
                  pipelineResponse>>

\* two requests that each run transformSMGCSV: what each request holds, the
\* request whose call is on the stack, and the outcome of a call made alone
VARIABLES requests, running, alone

pairVars == <<requests, running, alone>>

vars == <<transformVars, callerVars, cleanVars, dateVars, resolveVars,
          handlerVars, uploadVars, pipelineVars, pairVars>>

\* everything but the request to POST /smg-upload
outsideUpload == <<transformVars, callerVars, cleanVars, dateVars,
                   resolveVars, handlerVars,
                   pipelineVars, pairVars>>

\* everything but the locals of transformSMGCSV
outsideTransform == <<callerVars, cleanVars, dateVars, resolveVars,
                      handlerVars, uploadVars,
                      pipelineVars, pairVars>>

\* everything but the call of cleanValue
outsideClean == <<transformVars, callerVars, dateVars, resolveVars,
                  handlerVars, uploadVars,
                  pipelineVars, pairVars>>

\* everything but the calls of normalizeDateForStorageUTC
outsideDates == <<transformVars, callerVars, cleanVars, resolveVars,
                  handlerVars, uploadVars,
                  pipelineVars, pairVars>>

\* everything but the store resolution
outsideResolve == <<transformVars, callerVars, cleanVars, dateVars,
                    handlerVars, uploadVars,
                    pipelineVars, pairVars>>

\* everything but the request to POST /smg-transform
outsideHandler == <<transformVars, callerVars, cleanVars, dateVars,
                    resolveVars, uploadVars,
                    pipelineVars, pairVars>>

\* transformSMGCSV has been entered with its two arguments
TransformEntry ==
  /\ csvContent \in CsvTexts
  /\ targetDate \in FallbackDates
  /\ pc = "start"
  /\ lines = <<>>
  /\ dateInfo = NullObject
  /\ metrics = <<>>
  /\ i = 0
  /\ transformedData = <<>>
  /\ result = NullObject
  /\ error = Null
  /\ calls = 1
  /\ earlier = NullObject

\* no call of transformSMGCSV is under way
NoTransform ==
  /\ csvContent = <<>>
  /\ targetDate = Null
  /\ pc = "none"
  /\ lines = <<>>
  /\ dateInfo = NullObject
  /\ metrics = <<>>
  /\ i = 0
  /\ transformedData = <<>>
  /\ result = NullObject
  /\ error = Null
  /\ calls = 0
  /\ earlier = NullObject

\* no call of cleanValue is under way
NoClean ==
  /\ value = Undefined
  /\ cleaned = NullObject

\* no call of normalizeDateForStorageUTC is under way
NoDates ==
  /\ dateString = Null
  /\ normalized = Null
  /\ renormalized = Null

\* no store resolution is under way
NoResolve ==
  /\ stores = <<>>
  /\ storeLocation = Null
  /\ storeByNumber = <<>>
  /\ storeByName = <<>>
  /\ storeId = Null
  /\ rpc = "none"

\* no request to POST /smg-transform is under way
NoHandler ==
  /\ csvData = Undefined
  /\ date = Undefined
  /\ hpc = "none"
  /\ smgRecords = <<>>
  /\ storeRows = <<>>
  /\ finalData = <<>>
  /\ mappedCount = 0
  /\ response = NullObject

\* no request to POST /smg-pipeline is under way
NoPipeline ==
  /\ pipelineBody = NullObject
  /\ today = 0
  /\ ppc = "none"
  /\ processingDates = <<>>
  /\ dateIndex = 0
  /\ allTransformedData = <<>>
  /\ pipelineResults = NullObject
  /\ pipelineOps = <<>>
  /\ pipelineResponse = NullObject

\* no pair of requests is under way
NoPair ==
  /\ requests = <<>>
  /\ running = 0
  /\ alone = NullObject

\* no request to POST /smg-upload is under way
NoUpload ==
  /\ body = NullObject
  /\ upc = "none"
  /\ validationErrors = <<>>
  /\ dbOps = <<>>
  /\ uploadResponse = NullObject
  /\ table = {}
  /\ tableBefore = {}

Init ==
  /\ TransformEntry
  /\ NoClean
  /\ NoDates
  /\ NoResolve
  /\ NoHandler
  /\ NoUpload
  /\ NoPipeline
  /\ NoPair

\* lines 161-171: split, normalize, drop blank lines, check the line count
SplitLines ==
  /\ pc = "start"
  /\ lines' = splitLines(csvContent)
  /\ IF tooFewLines(lines')
     THEN /\ pc' = "thrown"
          /\ error' = "Invalid SMG CSV format - not enough lines"
     ELSE /\ pc' = "date"
          /\ error' = error
  /\ UNCHANGED <<csvContent, targetDate, dateInfo, metrics, i,
                 transformedData, result>>
  /\ UNCHANGED outsideTransform

\* faulty variant: a supplied fallback date wins over the title's date
resolveDatePreferFallback(titleLine, fallback) ==
  IF Truthy(fallback) THEN [startDate |-> fallback, endDate |-> fallback]
  ELSE extractDate(titleLine)

\* faulty variant: the fallback date is ignored
resolveDateNoFallback(titleLine, fallback) == extractDate(titleLine)

\* the dateInfo of lines 174-178
resolveDate(titleLine, fallback) ==
  LET extracted == extractDate(titleLine)
  IN  IF extracted # NullObject THEN extracted
      ELSE IF Truthy(fallback)
      THEN [startDate |-> fallback, endDate |-> fallback]
      ELSE NullObject

\* lines 173-181: date of the title line, else the fallback, else throw
ResolveDate ==
  /\ pc = "date"
  /\ dateInfo' = resolveDate(At(lines, 1), targetDate)
  /\ IF dateInfo' = NullObject
     THEN /\ pc' = "thrown"
          /\ error' = "Could not extract date from SMG CSV title line"
     ELSE /\ pc' = "headers"
          /\ error' = error
  /\ UNCHANGED <<csvContent, targetDate, lines, metrics, i,
                 transformedData, result>>
  /\ UNCHANGED outsideTransform

\* lines 190-196: parse the two header lines
ParseHeaders ==
  /\ pc = "headers"
  /\ metrics' = parseHeaders(At(lines, 2), At(lines, 3))
  /\ i' = 3
  /\ pc' = "rows"
  /\ UNCHANGED <<csvContent, targetDate, lines, dateInfo,
                 transformedData, result, error>>
  /\ UNCHANGED outsideTransform

\* lines 199-234: one iteration of the data-line loop; the first push of a
\* row whose date cannot be normalized ends the call with a TypeError
ProcessRow ==
  /\ pc = "rows"
  /\ i < Len(lines)
  /\ LET pushed == rowRecords(Get(lines, i), i, dateInfo.startDate, metrics)
     IN  IF pushed # <<>> /\ dateTypeError(dateInfo.startDate)
         THEN /\ pc' = "thrown"
              /\ error' = "TypeError"
              /\ UNCHANGED <<transformedData, i>>
         ELSE /\ transformedData' = transformedData \o pushed
              /\ i' = i + 1
              /\ UNCHANGED <<pc, error>>
  /\ UNCHANGED <<csvContent, targetDate, lines, dateInfo, metrics, result>>
  /\ UNCHANGED outsideTransform

\* lines 236-237: the loop is over, return transformedData
Return ==
  /\ pc = "rows"
  /\ ~(i < Len(lines))
  /\ result' = [value |-> transformedData]
  /\ pc' = "returned"
  /\ UNCHANGED <<csvContent, targetDate, lines, dateInfo, metrics, i,
                 transformedData, error>>
  /\ UNCHANGED outsideTransform

Next == SplitLines \/ ResolveDate \/ ParseHeaders \/ ProcessRow \/ Return

Spec == Init /\ [][Next]_vars

(***************************************************************************)
(* transformSMGCSV called again with the same arguments                    *)
(***************************************************************************)

\* faulty variant: the record list outlives the call
transformedDataKept(old) == old

\* line 198: const transformedData = [] is local to the call
transformedDataFresh(old) == <<>>

\* how the current call ended
Outcome == [pc |-> pc, result |-> result, error |-> error]

\* the caller calls transformSMGCSV(csvContent, targetDate) a second time:
\* the parameters are bound to the same arguments and every local is new
CallAgain ==
  /\ pc \in {"returned", "thrown"}
  /\ calls = 1
  /\ calls' = calls + 1
  /\ earlier' = Outcome
  /\ pc' = "start"
  /\ lines' = <<>>
  /\ dateInfo' = NullObject
  /\ metrics' = <<>>
  /\ i' = 0
  /\ transformedData' = transformedDataFresh(transformedData)
  /\ result' = NullObject
  /\ error' = Null
  /\ UNCHANGED <<csvContent, targetDate, cleanVars, dateVars, resolveVars,
                 handlerVars, uploadVars, pipelineVars, pairVars>>

NextTwice == Next \/ CallAgain

SpecTwice == Init /\ [][NextTwice]_vars

(***************************************************************************)
(* Properties of transformSMGCSV                                           *)
(***************************************************************************)

\* 0-based indices of the data lines (line 3 on)
DataRows == 3..(Len(lines) - 1)

\* the column-0 cell of data line r, trimmed
LabelOf(r) == Trim(Split(Get(lines, r), ",")[1])

\* data line r passes the skip test of the row loop
Retained(r) == ~skipRow(storeLocationOf(parseCSVLine(Get(lines, r)), r))

\* the retained data lines in line order
RetainedSeq ==
  SelectSeq([k \in 1..Cardinality(DataRows) |-> k + 2], LAMBDA r : Retained(r))

\* the call has gone past header parsing
HeadersParsed == pc \in {"rows", "returned"}

\* C1: the number of records returned is (data rows from line 3 on that are
\* not skipped) x (metrics returned by parseHeaders) x 5
C1_RecordCount ==
  pc = "returned" =>
    Len(result.value)
      = Cardinality({r \in DataRows : Retained(r)})
        * Len(parseHeaders(Get(lines, 1), Get(lines, 2))) * 5

\* C1 witness: a call returned the ten records of one retained row under two
\* metrics, while the other data row was skipped
C1_Witness ==
  /\ pc = "returned"
  /\ Len(metrics) = 2
  /\ Cardinality(DataRows) = 2
  /\ Cardinality({r \in DataRows : Retained(r)}) = 1
  /\ Len(result.value) = 10

\* the k-th returned record belongs to the row and metric that row-major,
\* then metric-major order assigns to position k; rows is RetainedSeq
InRowMetricOrder(rows, k) ==
  LET m    == Len(metrics)
      r    == rows[((k - 1) \div (5 * m)) + 1]
      mt   == metrics[(((k - 1) \div 5) % m) + 1]
      vals == parseCSVLine(Get(lines, r))
      rec  == result.value[k]
  IN  /\ rec.store_location = storeLocationOf(vals, r)
      /\ rec.metric_name = mt.name
      /\ rec.total_responses = cleanValue(Get(vals, mt.responseCountIndex))
      /\ rec.response_percent
           = cleanValue(Get(vals, mt.scoreIndices[rec.score]))

\* C2 as claimed: rows outermost, metrics in the middle, scores innermost
\* in the order 5, 4, 3, 2, 1
C2_Original ==
  pc = "returned" =>
    LET rows == RetainedSeq
    IN  \A k \in 1..Len(result.value) :
      /\ InRowMetricOrder(rows, k)
      /\ result.value[k].score = 5 - ((k - 1) % 5)

\* C2 amended: rows outermost, metrics in the middle, scores innermost in
\* the order 1, 2, 3, 4, 5; the five records of one (row, metric) are
\* contiguous and start with score 1
C2_Order ==
  pc = "returned" =>
    LET rows == RetainedSeq
    IN  \A k \in 1..Len(result.value) :
      /\ InRowMetricOrder(rows, k)
      /\ result.value[k].score = ((k - 1) % 5) + 1

\* C2 witness: twenty records of two rows under two metrics were returned
C2_Witness ==
  /\ pc = "returned"
  /\ Len(metrics) = 2
  /\ Len(RetainedSeq) = 2
  /\ Len(result.value) = 20
  /\ result.value[1].store_location # result.value[11].store_location

\* C3: with fewer than 4 lines left after normalization the call raises an
\* error and hands back no record
C3_TooFewLines ==
  (pc # "start" /\ Len(lines) < 4) =>
    /\ pc = "thrown"
    /\ error = "Invalid SMG CSV format - not enough lines"
    /\ result = NullObject
    /\ transformedData = <<>>

\* C3 witness: a text of at least four raw lines, one of them blank, was
\* rejected with three lines left
C3_Witness ==
  /\ pc = "thrown"
  /\ Len(lines) = 3
  /\ Len(Split(csvContent, "\n")) >= 4

\* C4: a title line without a date pair gives an absent match; the fallback
\* date then becomes both startDate and endDate, and without a fallback the
\* call raises an error
C4_Fallback ==
  (pc \notin {"start", "date"} /\ Len(lines) >= 4
     /\ extractDate(Get(lines, 0)) = NullObject) =>
    IF Truthy(targetDate)
    THEN /\ pc # "thrown"
         /\ dateInfo = [startDate |-> targetDate, endDate |-> targetDate]
    ELSE /\ pc = "thrown"
         /\ error = "Could not extract date from SMG CSV title line"
         /\ result = NullObject

\* C4 witness: a call whose title line has no date pair returned records
\* dated by the fallback
C4_Witness ==
  /\ pc = "returned"
  /\ extractDate(Get(lines, 0)) = NullObject
  /\ targetDate = DateIso
  /\ Len(result.value) > 0
  /\ result.value[1].date = DateIso

\* C5: the call raises only for too few lines or an unresolvable date
C5_OnlyTwoFatal ==
  /\ pc \in {"start", "date", "headers", "rows", "returned", "thrown"}
  /\ pc = "thrown" =>
       \/ Len(lines) < 4
       \/ /\ extractDate(Get(lines, 0)) = NullObject
          /\ ~Truthy(targetDate)
  /\ (pc = "rows" /\ ~(i < Len(lines))) => ENABLED Return

\* C5 witness: a call returned records for a header with a column that has
\* no category and a data row that is short and holds an unparsable cell
C5_Witness ==
  /\ pc = "returned"
  /\ Get(lines, 1) = HeaderLate
  /\ Get(lines, 2) = SubMixed
  /\ Get(lines, 3) = Trim(RemoveCR(RowShort))
  /\ Len(result.value) > 0

\* the trimmed cells of the two header lines
Categories == parseCSVLine(Get(lines, 1))

SubHeaders == parseCSVLine(Get(lines, 2))

\* the columns in 1..c of the first header row cats that hold a category name
NamedUpTo(cats, c) == {j \in 1..c : j < Len(cats) /\ Get(cats, j) # <<>>}

\* C6 as claimed: every column i >= 1 of the second header row that holds
\* exactly 'n' under an active category has a metric, also when the first
\* header row is the shorter one
C6_Original ==
  HeadersParsed =>
    LET cats == Categories
        subs == SubHeaders
    IN  \A c \in 1..(Len(subs) - 1) :
          (Get(subs, c) = <<"n">> /\ NamedUpTo(cats, c) # {}) =>
            \E k \in 1..Len(metrics) : metrics[k].responseCountIndex = c

\* C7: every metric sits at a column i >= 1 marked 'n', is named after the
\* nearest category at or left of i, maps scores 5..1 to columns i+1..i+5,
\* and the metrics are in ascending column order
C7_MetricShape ==
  HeadersParsed =>
    LET cats == Categories
        subs == SubHeaders
    IN  \A k \in 1..Len(metrics) :
          LET c == metrics[k].responseCountIndex
          IN  /\ c >= 1
              /\ Get(subs, c) = <<"n">>
              /\ NamedUpTo(cats, c) # {}
              /\ metrics[k].name = Get(cats, Max(NamedUpTo(cats, c)))
              /\ \A sc \in 1..5 : metrics[k].scoreIndices[sc] = c + (6 - sc)
              /\ k > 1 => metrics[k - 1].responseCountIndex < c

\* C7 witness: two metrics were found under one carried-over category
C7_Witness ==
  /\ HeadersParsed
  /\ Len(metrics) = 2
  /\ metrics[1].responseCountIndex = 2
  /\ metrics[2].responseCountIndex = 4
  /\ metrics[2].name = <<"T","a","s","t","e">>
  /\ Get(Categories, 4) = <<>>

\* data line r has an empty label or one that holds 'store id' in any case
SkipLabel(r) ==
  \/ LabelOf(r) = <<>>
  \/ Includes(ToLowerCase(LabelOf(r)), <<"s","t","o","r","e"," ","i","d">>)

\* C8 as claimed: a data row with an empty label or with 'store id' in its
\* label adds no record
C8_Original ==
  [][(pc = "rows" /\ i < Len(lines) /\ SkipLabel(i))
       => transformedData' = transformedData]_vars

Abs(x) == IF x < 0 THEN -x ELSE x

C11_FiveRecords ==
  LET rows == RetainedSeq
      m    == Len(metrics)
  IN  /\ Len(transformedData) % 5 = 0
      /\ \A b \in 0..((Len(transformedData) \div 5) - 1) :
           LET mt   == metrics[(b % m) + 1]
               vals == parseCSVLine(Get(lines, rows[(b \div m) + 1]))
               n    == cleanValue(Get(vals, mt.responseCountIndex))
           IN  /\ \A j \in 1..5 : transformedData[5 * b + j].total_responses = n
               /\ \A s \in 1..5 :
                    Cardinality({j \in 1..5 :
                                   transformedData[5 * b + j].score = s}) = 1

\* C11 witness: one row under two metrics returned ten records, five with
\* total 100 and five with total 80
C11_Witness ==
  /\ pc = "returned"
  /\ Len(metrics) = 2
  /\ Len(result.value) >= 10
  /\ \E b \in 0..((Len(result.value) \div 5) - 2) :
       /\ \A j \in 1..5 : result.value[5 * b + j].total_responses = Int2Num(100)
       /\ \A j \in 6..10 : result.value[5 * b + j].total_responses = Int2Num(80)

\* C13: a data row shorter than a metric's response-count or score column
\* still yields the metric's five records, every cell beyond the row's end
\* read as 0, and the row loop raises no fault
C13_ShortRows ==
  LET rows == RetainedSeq
      m    == Len(metrics)
  IN  /\ pc = "thrown" => i = 0
      /\ pc = "returned" => Len(result.value) = 5 * Len(rows) * m
      /\ \A b \in 0..((Len(transformedData) \div 5) - 1) :
           LET mt   == metrics[(b % m) + 1]
               vals == parseCSVLine(Get(lines, rows[(b \div m) + 1]))
           IN  \A j \in 1..5 :
                 LET rec == transformedData[5 * b + j]
                 IN  /\ rec.metric_name = mt.name
                     /\ mt.responseCountIndex >= Len(vals)
                          => rec.total_responses = Zero
                     /\ mt.scoreIndices[rec.score] >= Len(vals)
                          => /\ rec.response_percent = Zero
                             /\ rec.response_count = 0

\* C13 witness: a four-cell row under two metrics returned ten records; the
\* second metric's columns 7..12 all lie beyond the row
C13_Witness ==
  /\ pc = "returned"
  /\ Len(metrics) = 2
  /\ metrics[2].responseCountIndex = 7
  /\ Len(lines) = 4
  /\ Len(parseCSVLine(Get(lines, 3))) = 4
  /\ Len(result.value) = 10
  /\ \A k \in 6..10 : /\ result.value[k].total_responses = Zero
                      /\ result.value[k].response_percent = Zero
  /\ result.value[1].total_responses = Int2Num(-3)
  /\ result.value[3].response_percent = Zero

\* C15: all records of one call carry one date: the normalized start date
\* of the title line whenever the title holds a date range, whatever the end
\* date and the fallback are, and the normalized fallback only when the
\* title holds no range
C15_OneDate ==
  LET title     == Get(lines, 0)
      extracted == extractDate(title)
      expected  == IF extracted # NullObject
                   THEN normalizeDateForStorageUTC(extracted.startDate)
                   ELSE normalizeDateForStorageUTC(targetDate)
  IN  \A k \in 1..Len(transformedData) :
        /\ transformedData[k].date = expected
        /\ title = Trim(RemoveCR(TitleRange))
             => transformedData[k].date = <<"2","0","2","4","-","0","6","-","2","6">>
        /\ title = TitleTight
             => transformedData[k].date = <<"2","0","2","4","-","1","2","-","0","5">>
        /\ title = TitleNoDate => transformedData[k].date = targetDate

\* C15 witness: ten records dated by the title's start date were returned
\* although a different fallback date was supplied
C15_Witness ==
  /\ pc = "returned"
  /\ Get(lines, 0) = Trim(RemoveCR(TitleRange))
  /\ targetDate = DateIso
  /\ Len(result.value) >= 10
  /\ \A k \in 1..Len(result.value) :
       result.value[k].date = <<"2","0","2","4","-","0","6","-","2","6">>

MaxCell == 3

\* characters the cells are made of: digits, the point, a sign, the mask
\* character, a letter and a blank
CellChars == {"3", "5", "0", ".", "-", "*", "x", " "}

\* the strings over chars of length at most n
RECURSIVE StringsUpTo(_, _)
StringsUpTo(chars, n) ==
  IF n = 0 THEN {<<>>}
  ELSE LET shorter == StringsUpTo(chars, n - 1)
       IN  shorter \cup {Append(t, c) : t \in shorter, c \in chars}

\* the arguments of cleanValue: a cell of the row, or an absent cell
Cells == StringsUpTo(CellChars, MaxCell) \cup {Undefined, Null}

InitClean ==
  /\ value \in Cells
  /\ cleaned = NullObject
  /\ NoTransform
  /\ NoDates
  /\ NoResolve
  /\ NoHandler
  /\ NoUpload
  /\ NoPipeline
  /\ NoPair

\* lines 138-144: the call returns
CleanValue ==
  /\ cleaned = NullObject
  /\ cleaned' = cleanValue(value)
  /\ UNCHANGED value
  /\ UNCHANGED outsideClean

NextClean == CleanValue

SpecClean == InitClean /\ [][NextClean]_vars

\* the cell starts, after white space and an optional sign, with a digit or
\* with a point and a digit
ParsesAsNumber(cell) ==
  LET p0 == SkipSpace(cell, 1)
      p1 == IF CharAt(cell, p0) \in {"-", "+"} THEN p0 + 1 ELSE p0
  IN  \/ CharAt(cell, p1) \in Digit
      \/ CharAt(cell, p1) = "." /\ CharAt(cell, p1 + 1) \in Digit

\* C12: cleanValue always returns a number, never a fault: 0 for '**', '',
\* an absent cell and every cell that does not parse as a number, and the
\* parsed number for every other cell ('3.5' gives 3.5)
C12_CleanValue ==
  cleaned # NullObject =>
    /\ ~isNaN(cleaned)
    /\ value \in {<<"*","*">>, <<>>, Undefined, Null} => cleaned = Zero
    /\ ~ParsesAsNumber(value) => cleaned = Zero
    /\ ParsesAsNumber(value) => cleaned = ParseFloat(value)
    /\ value = <<"3",".","5">> => cleaned = [num |-> 35, den |-> 10]
    /\ value = <<"-",".","5">> => cleaned = [num |-> -5, den |-> 10]

\* C12 witness: the cell '3.5' was cleaned to 3.5
C12_Witness ==
  /\ value = <<"3",".","5">>
  /\ cleaned = [num |-> 35, den |-> 10]

(***************************************************************************)
(* normalizeDateForStorageUTC on its own: a date of either shape, the      *)
(* function applied to it and applied again to what it returned            *)
(***************************************************************************)

\* digits the month and day tokens are made of
DateDigits == {"0", "1", "2", "6"}

\* a month or day written with two digits
TwoDigit == {<<a, b>> : a \in DateDigits, b \in DateDigits}

\* a month or day written with one or two digits
OneOrTwoDigit == {<<a>> : a \in DateDigits} \cup TwoDigit

Years == {<<"2","0","2","4">>, <<"1","9","9","9">>}

\* 'M/D/YYYY'
SlashDate(m, d, y) == m \o <<"/">> \o d \o <<"/">> \o y

\* 'YYYY-MM-DD'
DashDate(m, d, y) == y \o <<"-">> \o m \o <<"-">> \o d

DateStrings ==
  {SlashDate(m, d, y) : m \in OneOrTwoDigit, d \in OneOrTwoDigit, y \in Years}
    \cup {DashDate(m, d, y) : m \in TwoDigit, d \in TwoDigit, y \in Years}

InitDates ==
  /\ dateString \in DateStrings
  /\ normalized = Null
  /\ renormalized = Null
  /\ NoTransform
  /\ NoClean
  /\ NoResolve
  /\ NoHandler
  /\ NoUpload
  /\ NoPipeline
  /\ NoPair

\* lines 36-54: the date is normalized
Normalize ==
  /\ normalized = Null
  /\ normalized' = normalizeDateForStorageUTC(dateString)
  /\ UNCHANGED <<dateString, renormalized>>
  /\ UNCHANGED outsideDates

\* lines 36-54: the normalized date is normalized again
NormalizeAgain ==
  /\ normalized # Null
  /\ renormalized = Null
  /\ renormalized' = normalizeDateForStorageUTC(normalized)
  /\ UNCHANGED <<dateString, normalized>>
  /\ UNCHANGED outsideDates

NextDates == Normalize \/ NormalizeAgain

SpecDates == InitDates /\ [][NextDates]_vars

\* a one-digit token with a zero in front
TwoWide(t) == IF Len(t) = 1 THEN <<"0">> \o t ELSE t

\* C14: every 'M/D/YYYY' with a one- or two-digit month and day becomes
\* 'YYYY-MM-DD' with month and day two digits wide, every 'YYYY-MM-DD' is
\* returned unchanged, and normalizing the result again changes nothing
C14_Canonical ==
  /\ normalized # Null =>
       /\ \A m \in OneOrTwoDigit, d \in OneOrTwoDigit, y \in Years :
            dateString = SlashDate(m, d, y)
              => normalized = DashDate(TwoWide(m), TwoWide(d), y)
       /\ \A m \in TwoDigit, d \in TwoDigit, y \in Years :
            dateString = DashDate(m, d, y) => normalized = dateString
       /\ Len(normalized) = 10
       /\ normalized[5] = "-" /\ normalized[8] = "-"
  /\ renormalized # Null => renormalized = normalized

\* C14 witness: '6/26/2024' became '2024-06-26' and stayed so when
\* normalized again
C14_Witness ==
  /\ dateString = SlashDate(<<"6">>, <<"2","6">>, <<"2","0","2","4">>)
  /\ normalized = DashDate(<<"0","6">>, <<"2","6">>, <<"2","0","2","4">>)
  /\ renormalized = normalized

(***************************************************************************)
(* Store resolution of POST /smg-transform: one store_location against the *)
(* rows of the stores table                                                *)
(***************************************************************************)

\* Map.prototype.get: the value stored under key, undefined when absent
RECURSIVE MapGetFrom(_, _, _)
MapGetFrom(map, key, k) ==
  IF k > Len(map) THEN Undefined
  ELSE IF map[k].key = key THEN map[k].value
  ELSE MapGetFrom(map, key, k + 1)

MapGet(map, key) == MapGetFrom(map, key, 1)

\* Map.prototype.set: a new key goes to the end, a known key keeps its
\* place and takes the new value
MapSet(map, key, val) ==
  IF \E k \in 1..Len(map) : map[k].key = key
  THEN [k \in 1..Len(map) |->
          IF map[k].key = key THEN [key |-> key, value |-> val] ELSE map[k]]
  ELSE Append(map, [key |-> key, value |-> val])

\* storeByNumber after stores.forEach has visited the first n rows
RECURSIVE storeByNumberUpTo(_, _)
storeByNumberUpTo(rows, n) ==
  IF n = 0 THEN <<>>
  ELSE LET before == storeByNumberUpTo(rows, n - 1)
           store  == rows[n]
       IN  IF Truthy(store.store_number)
           THEN MapSet(before, store.store_number, store.store_id)
           ELSE before

\* storeByName after stores.forEach has visited the first n rows
RECURSIVE storeByNameUpTo(_, _)
storeByNameUpTo(rows, n) ==
  IF n = 0 THEN <<>>
  ELSE LET before == storeByNameUpTo(rows, n - 1)
           store  == rows[n]
       IN  IF Truthy(store.store_name)
           THEN MapSet(before, ToLowerCase(store.store_name), store.store_id)
           ELSE before

\* first position from p on that holds a digit, Len(s) + 1 if none
RECURSIVE DigitFrom(_, _)
DigitFrom(s, p) ==
  IF p > Len(s) THEN Len(s) + 1
  ELSE IF s[p] \in Digit THEN p
  ELSE DigitFrom(s, p + 1)

\* storeLocation.match(/(\d+)/): the first run of digits, null without one
storeNumberMatch(location) ==
  LET p == DigitFrom(location, 1)
  IN  IF p > Len(location) THEN Null
      ELSE SubSeq(location, p, p + DigitRunLen(location, p) - 1)

\* allDigits.length >= 4 ? allDigits.slice(-4) : allDigits
storeNumberOf(allDigits) ==
  IF Len(allDigits) >= 4
  THEN SubSeq(allDigits, Len(allDigits) - 3, Len(allDigits))
  ELSE allDigits

\* parseInt(storeNumber, 10).toString() of a string of digits
storeNumberIntOf(storeNumber) == IntToStr(DigitsVal(storeNumber))

\* the guard of the second lookup
secondLookup(found, allDigits) == ~Truthy(found) /\ Len(allDigits) > 4

\* lines 493-505: storeId after the lookups by store number
lookupByNumber(location, byNumber) ==
  LET allDigits == storeNumberMatch(location)
  IN  IF allDigits = Null THEN Null
      ELSE LET storeNumber == storeNumberOf(allDigits)
               found       == MapGet(byNumber, storeNumber)
           IN  IF secondLookup(found, allDigits)
               THEN MapGet(byNumber, storeNumberIntOf(storeNumber))
               ELSE found

\* the for...of loop over storeByName from entry k on: the id of the first
\* entry whose name the lower-cased location includes
RECURSIVE nameLoop(_, _, _, _)
nameLoop(locationLower, byName, k, found) ==
  IF k > Len(byName) THEN found
  ELSE IF Includes(locationLower, byName[k].key) THEN byName[k].value
  ELSE nameLoop(locationLower, byName, k + 1, found)

\* lines 507-516: storeId after the fallback by store name
lookupByName(found, location, byName) ==
  IF ~Truthy(found) THEN nameLoop(ToLowerCase(location), byName, 1, found)
  ELSE found

\* the store_id a record's store_location resolves to, falsy when none
resolveStoreId(location, rows) ==
  lookupByName(lookupByNumber(location, storeByNumberUpTo(rows, Len(rows))),
               location, storeByNameUpTo(rows, Len(rows)))

\* rows of the stores table drawn
MaxStores == 2

\* store_id of the k-th row: the table's key, never empty
StoreIdOf(k) == <<"i","d">> \o IntToStr(k)

\* store_number (as toString gives it) and store_name of a row, either of
\* which may be unset
StoreChoices ==
  {[store_number |-> <<"1","2","3">>, store_name |-> <<"M","a","i","n">>],
   [store_number |-> <<"1","8","2","2">>, store_name |-> Null],
   [store_number |-> Null, store_name |-> <<"Q","d","o","b","a">>],
   [store_number |-> Null, store_name |-> <<"Q","D","O","B","A">>]}

\* the tables of exactly n rows
StoreTablesOf(n) ==
  {[k \in 1..n |-> [store_id     |-> StoreIdOf(k),
                    store_number |-> rows[k].store_number,
                    store_name   |-> rows[k].store_name]] :
     rows \in [1..n -> StoreChoices]}

StoreTables == UNION {StoreTablesOf(n) : n \in 0..MaxStores}

\* store_location values: labels of data rows
StoreLocations ==
  {<<"Q","D","O","B","A"," ","0","1","2","3">>, <<"Q","d","o","b","a"," ","0","0","1","2","3">>, <<"M","a","i","n"," ","S","t"," ","5","1","8","2","2">>,
   <<"Q","D","O","B","A">>, <<"M","a","i","n"," ","7","7"," ","1","8","2","2">>, <<"S","2">>}

InitResolve ==
  /\ stores \in StoreTables
  /\ storeLocation \in StoreLocations
  /\ storeByNumber = <<>>
  /\ storeByName = <<>>
  /\ storeId = Null
  /\ rpc = "maps"
  /\ NoTransform
  /\ NoClean
  /\ NoDates
  /\ NoHandler
  /\ NoUpload
  /\ NoPipeline
  /\ NoPair

\* lines 478-483: the two lookup maps are filled from the table
BuildMaps ==
  /\ rpc = "maps"
  /\ storeByNumber' = storeByNumberUpTo(stores, Len(stores))
  /\ storeByName' = storeByNameUpTo(stores, Len(stores))
  /\ rpc' = "number"
  /\ UNCHANGED <<stores, storeLocation, storeId>>
  /\ UNCHANGED outsideResolve

\* lines 493-505: lookup by store number
MatchNumber ==
  /\ rpc = "number"
  /\ storeId' = lookupByNumber(storeLocation, storeByNumber)
  /\ rpc' = "name"
  /\ UNCHANGED <<stores, storeLocation, storeByNumber, storeByName>>
  /\ UNCHANGED outsideResolve

\* lines 507-516: fallback by store name
MatchName ==
  /\ rpc = "name"
  /\ storeId' = lookupByName(storeId, storeLocation, storeByName)
  /\ rpc' = "resolved"
  /\ UNCHANGED <<stores, storeLocation, storeByNumber, storeByName>>
  /\ UNCHANGED outsideResolve

NextResolve == BuildMaps \/ MatchNumber \/ MatchName

SpecResolve == InitResolve /\ [][NextResolve]_vars

\* a string of digits without its leading zeros
RECURSIVE StripZeros(_)
StripZeros(ds) ==
  IF Len(ds) > 1 /\ ds[1] = "0" THEN StripZeros(Tail(ds)) ELSE ds

\* the ids of the rows of the table whose store number is num
NumberedAs(num) ==
  {stores[k].store_id : k \in {j \in 1..Len(stores) : stores[j].store_number = num}}

\* the rightmost four digits of a run of digits, the run itself if shorter
Rightmost4(run) ==
  IF Len(run) > 4 THEN SubSeq(run, Len(run) - 3, Len(run)) ELSE run

\* C17: for a store_location with a digit run the rightmost 4 digits of the
\* run are looked up among the store numbers and, whenever that finds
\* nothing, the same digits without leading zeros are looked up; a run
\* '0123' resolves to the store numbered 123
C17_Original ==
  (rpc = "name" /\ storeNumberMatch(storeLocation) # Null) =>
    LET digits == Rightmost4(storeNumberMatch(storeLocation))
    IN  IF NumberedAs(digits) # {} THEN storeId \in NumberedAs(digits)
        ELSE IF NumberedAs(StripZeros(digits)) # {}
        THEN storeId \in NumberedAs(StripZeros(digits))
        ELSE ~Truthy(storeId)

\* the rows of the table whose lower-cased name the lower-cased location
\* includes
NamedIn(location) ==
  {k \in 1..Len(stores) :
     /\ Truthy(stores[k].store_name)
     /\ Includes(ToLowerCase(location), ToLowerCase(stores[k].store_name))}

\* C18: a store found by number is always chosen; only when the lookup by
\* number finds nothing is the record resolved to the first row of the
\* stores table whose lower-cased name is a substring of the lower-cased
\* store_location
C18_Original ==
  rpc = "resolved" =>
    LET byNumber == lookupByNumber(storeLocation, storeByNumber)
        named    == NamedIn(storeLocation)
    IN  IF Truthy(byNumber) THEN storeId = byNumber
        ELSE IF named # {} THEN storeId = stores[Min(named)].store_id
        ELSE ~Truthy(storeId)

(***************************************************************************)
(* POST /smg-transform                                                     *)
(***************************************************************************)

\* the object pushed to finalData for a record and its store
finalRecord(record, id) ==
  [store_id         |-> id,
   date             |-> record.date,
   question         |-> record.question,
   score            |-> record.score,
   response_count   |-> record.response_count,
   response_percent |-> record.response_percent,
   total_responses  |-> record.total_responses]

\* faulty variant: unresolved records are pushed as well
keepRecordAlways(id) == TRUE

\* if (storeId): the record is pushed
keepRecord(id) == Truthy(id)

\* transformedData.forEach(record => ...) from the k-th record on: finalData
RECURSIVE mapRecords(_, _, _)
mapRecords(records, rows, k) ==
  IF k > Len(records) THEN <<>>
  ELSE LET id == resolveStoreId(records[k].store_location, rows)
       IN  (IF keepRecord(id) THEN <<finalRecord(records[k], id)>> ELSE <<>>)
           \o mapRecords(records, rows, k + 1)

\* Math.round((mappedCount / transformedData.length) * 100)
mappingSuccessRate(mapped, total) ==
  IF total = 0 THEN NaN
  ELSE Int2Num(MathRound([num |-> 100 * mapped, den |-> total]))

\* data rows of a request
MaxRows == 2

\* data rows whose labels the store resolution works on
StoreRowLines ==
  {<<"Q","D","O","B","A"," ","0","1","2","3",",","1","0",",","5","0",",","3","0",",","2","0">>, <<"M","a","i","n"," ","S","t"," ","5","1","8","2","2",",","4",",","2","5">>,
   <<"S","2",",","1">>}

RECURSIVE StoreRowSeqs(_)
StoreRowSeqs(n) ==
  IF n = 0 THEN {<<>>}
  ELSE {Append(ls, l) : ls \in StoreRowSeqs(n - 1), l \in StoreRowLines}

\* csvData: missing, or a title, two header lines and up to MaxRows rows,
\* or a text whose only row is skipped, or one without a metric
CsvBodies ==
  {Undefined}
    \cup {JoinLines(<<TitleRange, HeaderSample, SubOne>> \o rows) :
            rows \in UNION {StoreRowSeqs(n) : n \in 0..MaxRows}}
    \cup {JoinLines(<<TitleRange, HeaderSample, SubOne, RowStoreId>>),
          JoinLines(<<TitleRange, HeaderLate, SubOne, RowSample>>)}

\* date: missing or a date
DateBodies == {Undefined, DateIso}

InitHandler ==
  /\ csvData \in CsvBodies
  /\ date \in DateBodies
  /\ hpc = "start"
  /\ smgRecords = <<>>
  /\ storeRows = <<>>
  /\ finalData = <<>>
  /\ mappedCount = 0
  /\ response = NullObject
  /\ NoTransform
  /\ NoClean
  /\ NoDates
  /\ NoResolve
  /\ NoUpload
  /\ NoPipeline
  /\ NoPair

\* lines 441-453: a missing parameter is answered with 400
RejectBody ==
  /\ hpc = "start"
  /\ ~Truthy(csvData) \/ ~Truthy(date)
  /\ response' =
       [status |-> 400,
        error  |-> IF ~Truthy(csvData)
                   THEN "Missing required parameter: csvData"
                   ELSE "Missing required parameter: date"]
  /\ hpc' = "done"
  /\ UNCHANGED <<csvData, date, smgRecords, storeRows, finalData, mappedCount>>
  /\ UNCHANGED outsideHandler

\* line 458: transformSMGCSV(csvData, date) is called
CallTransform ==
  /\ hpc = "start"
  /\ Truthy(csvData) /\ Truthy(date)
  /\ csvContent' = csvData
  /\ targetDate' = date
  /\ pc' = "start"
  /\ hpc' = "transform"
  /\ UNCHANGED <<lines, dateInfo, metrics, i, transformedData, result, error>>
  /\ UNCHANGED <<csvData, date, smgRecords, storeRows, finalData, mappedCount,
                 response>>
  /\ UNCHANGED <<callerVars, cleanVars, dateVars, resolveVars, uploadVars,
                 pipelineVars, pairVars>>

\* line 458: transformSMGCSV has returned its records
TransformReturned ==
  /\ hpc = "transform"
  /\ pc = "returned"
  /\ smgRecords' = result.value
  /\ hpc' = "stores"
  /\ UNCHANGED <<csvData, date, storeRows, finalData, mappedCount, response>>
  /\ UNCHANGED outsideHandler

\* lines 550-556: what transformSMGCSV threw is caught and answered with 500
TransformThrew ==
  /\ hpc = "transform"
  /\ pc = "thrown"
  /\ response' = [status  |-> 500,
                  error   |-> "Internal server error",
                  message |-> error]
  /\ hpc' = "done"
  /\ UNCHANGED <<csvData, date, smgRecords, storeRows, finalData, mappedCount>>
  /\ UNCHANGED outsideHandler

\* lines 462-473: the stores query fails
StoresFailed ==
  /\ hpc = "stores"
  /\ response' = [status |-> 500, error |-> "Failed to fetch store mappings"]
  /\ hpc' = "done"
  /\ UNCHANGED <<csvData, date, smgRecords, storeRows, finalData, mappedCount>>
  /\ UNCHANGED outsideHandler

\* lines 462-464: the stores query returns the rows of the table
StoresFetched ==
  /\ hpc = "stores"
  /\ storeRows' \in StoreTables
  /\ hpc' = "map"
  /\ UNCHANGED <<csvData, date, smgRecords, finalData, mappedCount, response>>
  /\ UNCHANGED outsideHandler

\* lines 477-548: the records are mapped to stores and the result is sent
MapStores ==
  /\ hpc = "map"
  /\ finalData' = mapRecords(smgRecords, storeRows, 1)
  /\ mappedCount' = Len(finalData')
  /\ response' =
       [status                  |-> 200,
        success                 |-> TRUE,
        original_lines          |-> Len(Split(csvData, "\n")),
        smg_records_extracted   |-> Len(smgRecords),
        database_records_mapped |-> Len(finalData'),
        stores_found            |-> Len(storeRows),
        mapping_success_rate    |->
          mappingSuccessRate(mappedCount', Len(smgRecords)),
        data                    |-> finalData']
  /\ hpc' = "done"
  /\ UNCHANGED <<csvData, date, smgRecords, storeRows>>
  /\ UNCHANGED outsideHandler

NextHandler ==
  \/ RejectBody
  \/ CallTransform
  \/ Next
  \/ TransformReturned
  \/ TransformThrew
  \/ StoresFailed
  \/ StoresFetched
  \/ MapStores

SpecHandler == InitHandler /\ [][NextHandler]_vars

\* the record's store_location resolves to a store of the fetched rows
Resolved(record) == Truthy(resolveStoreId(record.store_location, storeRows))

\* C19: the data returned by POST /smg-transform is the subsequence, in the
\* original order, of the extracted records whose store resolved, and
\* smg_records_extracted - database_records_mapped is the number of records
\* dropped
C19_Subsequence ==
  (hpc = "done" /\ response.status = 200) =>
    LET kept    == SelectSeq(smgRecords, Resolved)
        dropped == {k \in 1..Len(smgRecords) : ~Resolved(smgRecords[k])}
    IN  /\ Len(response.data) = Len(kept)
        /\ \A k \in 1..Len(kept) :
             /\ Truthy(response.data[k].store_id)
             /\ response.data[k]
                  = finalRecord(kept[k], response.data[k].store_id)
        /\ response.smg_records_extracted = Len(smgRecords)
        /\ response.database_records_mapped = Len(response.data)
        /\ response.smg_records_extracted - response.database_records_mapped
             = Cardinality(dropped)

\* C19 witness: of ten extracted records the five of the second row were
\* returned and the five of the first row dropped
C19_Witness ==
  /\ hpc = "done"
  /\ response.status = 200
  /\ Len(smgRecords) = 10
  /\ Len(response.data) = 5
  /\ ~Resolved(smgRecords[1])
  /\ Resolved(smgRecords[6])
  /\ \A k \in 1..5 : response.data[k].score = smgRecords[5 + k].score

(***************************************************************************)
(* POST /smg-upload                                                        *)
(***************************************************************************)

\* a numeric field that is not present
NoNumber == [undefined |-> TRUE]

\* a JavaScript number, or a missing one, is truthy
TruthyNumber(x) == x # NoNumber /\ ~isNaN(x) /\ x.num # 0

\* x < n for a number x and an integer n
LessThan(x, n) == x.num < n * x.den

\* x > n for a number x and an integer n
GreaterThan(x, n) == x.num > n * x.den

\* the fields every record needs, in the order they are checked
requiredFields == <<"store_id", "date", "question", "score">>

\* !record[field]
fieldMissing(record, field) ==
  IF field = "score" THEN ~TruthyNumber(record.score)
  ELSE ~Truthy(record[field])

\* faulty variant: only the upper end of the range is tested
scoreOutOfRangeAbove(score) == TruthyNumber(score) /\ GreaterThan(score, 5)

\* record.score && (record.score < 1 || record.score > 5)
scoreOutOfRange(score) ==
  TruthyNumber(score) /\ (LessThan(score, 1) \/ GreaterThan(score, 5))

\* the errors pushed for the record at 0-based index
recordErrors(record, index) ==
  LET missing == SelectSeq(requiredFields,
                           LAMBDA field : fieldMissing(record, field))
  IN  [k \in 1..Len(missing) |->
         [index |-> index, error |-> "Missing required field",
          field |-> missing[k]]]
      \o (IF scoreOutOfRange(record.score)
          THEN <<[index |-> index,
                  error |-> "Score must be between 1 and 5",
                  field |-> "score"]>>
          ELSE <<>>)

\* data.forEach((record, index) => ...) from the k-th record on
RECURSIVE validate(_, _)
validate(records, k) ==
  IF k > Len(records) THEN <<>>
  ELSE recordErrors(records[k], k - 1) \o validate(records, k + 1)

\* records of a request
MaxRecords == 2

ModeUpsert == <<"u","p","s","e","r","t">>

ModeInsert == <<"i","n","s","e","r","t">>

ModeReplace == <<"r","e","p","l","a","c","e">>

\* a mode the handler does not know
ModeOther == <<"m","e","r","g","e">>

\* mode of the body: one of the modes, or left out
Modes == {Undefined, ModeUpsert, ModeInsert, ModeReplace, ModeOther}

\* const { body.data, mode = 'upsert' } = req.body
modeOf(bodyMode) == IF bodyMode = Undefined THEN ModeUpsert ELSE bodyMode

\* a record with all four fields
FullRecord(id, score) ==
  [store_id |-> id, date |-> DateIso,
   question |-> <<"O","v","e","r","a","l","l">>, score |-> score]

\* the day after DateIso
DateNext ==
  <<"2","0","2","5","-","0","6","-","2","7">>

\* scores sent: in range, at the ends, zero, below, above, fractional
Scores ==
  {Int2Num(1), Int2Num(5), Int2Num(0), Int2Num(-1), Int2Num(6),
   [num |-> 5, den |-> 10]}

\* the records sent: complete ones, and ones that lack one field
UploadRecords ==
  {FullRecord(StoreIdOf(1), sc) : sc \in Scores}
    \cup {FullRecord(StoreIdOf(2), Int2Num(3)),
          [FullRecord(StoreIdOf(2), Int2Num(3)) EXCEPT !.date = DateNext],
          FullRecord(StoreIdOf(1), NoNumber),
          [FullRecord(StoreIdOf(1), Int2Num(4)) EXCEPT !.store_id = Undefined],
          [FullRecord(StoreIdOf(1), Int2Num(4)) EXCEPT !.date = Undefined],
          [FullRecord(StoreIdOf(1), Int2Num(4)) EXCEPT !.question = <<>>]}

RECURSIVE RecordSeqs(_)
RecordSeqs(n) ==
  IF n = 0 THEN {<<>>}
  ELSE {Append(rs, r) : rs \in RecordSeqs(n - 1), r \in UploadRecords}

\* req.body: a mode, and data left out or an array of up to MaxRecords
\* records
Bodies ==
  {[mode |-> m] : m \in Modes}
    \cup {[data |-> d, mode |-> m] :
            d \in UNION {RecordSeqs(n) : n \in 0..MaxRecords}, m \in Modes}

\* !data || !Array.isArray(body.data)
noData(b) == "data" \notin DOMAIN b

\* data.length === 0
emptyData(b) == IF noData(b) THEN FALSE ELSE b.data = <<>>

\* rows the table may hold when a request arrives
ExistingRows == {FullRecord(StoreIdOf(1), Int2Num(1)),
                 FullRecord(StoreIdOf(2), Int2Num(3))}

Tables == SUBSET ExistingRows

\* the columns of onConflict: 'store_id,date,question,score'
conflictKey(row) == <<row.store_id, row.date, row.question, row.score>>

\* the records as a set of rows
RowsOf(records) == {records[k] : k \in 1..Len(records)}

\* .upsert(data, {onConflict, ignoreDuplicates: false}): a row of equal key
\* is replaced, any other record is added
afterUpsert(tbl, records) ==
  {row \in tbl : \A k \in 1..Len(records) :
                   conflictKey(row) # conflictKey(records[k])}
    \cup RowsOf(records)

\* .insert(data) fails on a duplicate key
duplicateKey(tbl, records) ==
  \/ \E k \in 1..Len(records), row \in tbl :
       conflictKey(records[k]) = conflictKey(row)
  \/ \E k1, k2 \in 1..Len(records) :
       k1 < k2 /\ conflictKey(records[k1]) = conflictKey(records[k2])

\* .insert(data)
afterInsert(tbl, records) == tbl \cup RowsOf(records)

\* .delete().in('date', dates).in('store_id', storeIds): both filters apply
afterDelete(tbl, dates, storeIds) ==
  {row \in tbl : ~(row.date \in dates /\ row.store_id \in storeIds)}

InitUpload ==
  /\ body \in Bodies
  /\ upc = "start"
  /\ validationErrors = <<>>
  /\ dbOps = <<>>
  /\ uploadResponse = NullObject
  /\ table \in Tables
  /\ tableBefore = table
  /\ NoTransform
  /\ NoClean
  /\ NoDates
  /\ NoResolve
  /\ NoHandler
  /\ NoPipeline
  /\ NoPair

\* lines 567-579: data is missing, no array, or empty
RejectData ==
  /\ upc = "start"
  /\ noData(body) \/ emptyData(body)
  /\ uploadResponse' =
       [status |-> 400,
        error  |-> IF noData(body)
                   THEN "Missing or invalid parameter: data (must be array)"
                   ELSE "Empty data array provided"]
  /\ upc' = "done"
  /\ UNCHANGED <<body, validationErrors, dbOps, table, tableBefore>>
  /\ UNCHANGED outsideUpload

\* lines 583-606: every record is validated; any error is answered with 400
Validate ==
  /\ upc = "start"
  /\ ~noData(body) /\ ~emptyData(body)
  /\ validationErrors' = validate(body.data, 1)
  /\ IF Len(validationErrors') > 0
     THEN /\ uploadResponse' = [status |-> 400,
                                error  |-> "Data validation failed",
                                validation_errors |-> validationErrors']
          /\ upc' = "done"
     ELSE /\ upc' = "write"
          /\ UNCHANGED uploadResponse
  /\ UNCHANGED <<body, dbOps, table, tableBefore>>
  /\ UNCHANGED outsideUpload

\* the values of one field over the records, each once
Unique(records, field) == {records[k][field] : k \in 1..Len(records)}

\* lines 697-717: the result sent after a write of the given size
uploadResult(inserted) ==
  [status      |-> 200,
   success     |-> TRUE,
   upload_mode |-> modeOf(body.mode),
   statistics  |-> [inserted |-> inserted, updated |-> 0, errors |-> 0,
                    total |-> Len(body.data)],
   summary     |-> [dates_affected      |-> Cardinality(Unique(body.data, "date")),
                    stores_affected     |-> Cardinality(Unique(body.data, "store_id")),
                    questions_processed |-> Cardinality(Unique(body.data, "question")),
                    records_processed   |-> Len(body.data)]]

\* the response to a failed database operation
uploadFailure(message) == [status |-> 500, error |-> message]

\* lines 616-636: upsert on store_id, date, question, score
Upsert ==
  /\ upc = "write"
  /\ modeOf(body.mode) = ModeUpsert
  /\ dbOps' = Append(dbOps, [op |-> "upsert", rows |-> body.data])
  /\ \E failed \in BOOLEAN :
       IF failed
       THEN /\ uploadResponse' = uploadFailure("Database upsert failed")
            /\ UNCHANGED table
       ELSE /\ uploadResponse' = uploadResult(Len(body.data))
            /\ table' = afterUpsert(table, body.data)
  /\ upc' = "done"
  /\ UNCHANGED <<body, validationErrors, tableBefore>>
  /\ UNCHANGED outsideUpload

\* lines 638-655: plain insert
Insert ==
  /\ upc = "write"
  /\ modeOf(body.mode) = ModeInsert
  /\ dbOps' = Append(dbOps, [op |-> "insert", rows |-> body.data])
  /\ \E failed \in {TRUE} \cup {duplicateKey(table, body.data)} :
       IF failed
       THEN /\ uploadResponse' = uploadFailure("Database insert failed")
            /\ UNCHANGED table
       ELSE /\ uploadResponse' = uploadResult(Len(body.data))
            /\ table' = afterInsert(table, body.data)
  /\ upc' = "done"
  /\ UNCHANGED <<body, validationErrors, tableBefore>>
  /\ UNCHANGED outsideUpload

\* lines 657-677: replace mode deletes the rows of the dates and stores sent
ReplaceDelete ==
  /\ upc = "write"
  /\ modeOf(body.mode) = ModeReplace
  /\ dbOps' = Append(dbOps, [op       |-> "delete",
                             dates    |-> Unique(body.data, "date"),
                             storeIds |-> Unique(body.data, "store_id")])
  /\ \E failed \in BOOLEAN :
       IF failed
       THEN /\ uploadResponse'
                 = uploadFailure("Database delete failed during replace mode")
            /\ upc' = "done"
            /\ UNCHANGED table
       ELSE /\ upc' = "insert"
            /\ table' = afterDelete(table, Unique(body.data, "date"),
                                    Unique(body.data, "store_id"))
            /\ UNCHANGED uploadResponse
  /\ UNCHANGED <<body, validationErrors, tableBefore>>
  /\ UNCHANGED outsideUpload

\* lines 679-694: replace mode inserts the records sent
ReplaceInsert ==
  /\ upc = "insert"
  /\ dbOps' = Append(dbOps, [op |-> "insert", rows |-> body.data])
  /\ \E failed \in {TRUE} \cup {duplicateKey(table, body.data)} :
       IF failed
       THEN /\ uploadResponse'
                 = uploadFailure("Database insert failed during replace mode")
            /\ UNCHANGED table
       ELSE /\ uploadResponse' = uploadResult(Len(body.data))
            /\ table' = afterInsert(table, body.data)
  /\ upc' = "done"
  /\ UNCHANGED <<body, validationErrors, tableBefore>>
  /\ UNCHANGED outsideUpload

\* lines 616-717: no branch is taken for any other mode; the result is sent
NoWrite ==
  /\ upc = "write"
  /\ modeOf(body.mode) \notin {ModeUpsert, ModeInsert, ModeReplace}
  /\ uploadResponse' = uploadResult(0)
  /\ upc' = "done"
  /\ UNCHANGED <<body, validationErrors, dbOps, table, tableBefore>>
  /\ UNCHANGED outsideUpload

NextUpload ==
  \/ RejectData
  \/ Validate
  \/ Upsert
  \/ Insert
  \/ ReplaceDelete
  \/ ReplaceInsert
  \/ NoWrite

SpecUpload == InitUpload /\ [][NextUpload]_vars

\* the record lacks store_id, date, question or score
Lacks(record) ==
  \/ record.store_id \in {Undefined, Null, <<>>}
  \/ record.date \in {Undefined, Null, <<>>}
  \/ record.question \in {Undefined, Null, <<>>}
  \/ record.score = NoNumber

\* the record's score is a number outside 1..5
Outside1To5(record) ==
  /\ record.score # NoNumber
  /\ \/ record.score.num < record.score.den
     \/ record.score.num > 5 * record.score.den

\* C20: when any record of the data lacks store_id, date, question or score,
\* or has a score outside 1..5, the request is answered with 400 and no
\* database operation is issued
C20_ValidateFirst ==
  (~noData(body)
     /\ \E k \in 1..Len(body.data) :
          Lacks(body.data[k]) \/ Outside1To5(body.data[k])) =>
    /\ dbOps = <<>>
    /\ upc \in {"start", "done"}
    /\ upc = "done" => uploadResponse.status = 400

\* C20 witness: a replace request whose second record has score 6 was
\* answered with 400 and nothing was sent to the database
C20_Witness ==
  /\ upc = "done"
  /\ ~noData(body)
  /\ modeOf(body.mode) = ModeReplace
  /\ Len(body.data) = 2
  /\ ~Lacks(body.data[1]) /\ ~Outside1To5(body.data[1])
  /\ body.data[2].score = Int2Num(6)
  /\ uploadResponse.status = 400
  /\ dbOps = <<>>

(***************************************************************************)
(* POST /smg-pipeline                                                      *)
(***************************************************************************)

\* everything but the request to POST /smg-pipeline
outsidePipeline == <<transformVars, callerVars, cleanVars, dateVars,
                     resolveVars, handlerVars, uploadVars, pairVars>>

\* consecutive calendar days, as toISOString().split('T')[0] prints them
Calendar ==
  <<<<"2","0","2","5","-","0","6","-","2","5">>,
    DateIso,
    DateNext,
    <<"2","0","2","5","-","0","6","-","2","8">>>>

\* the days the clock may show, as positions in Calendar
Todays == {Len(Calendar) - 1, Len(Calendar)}

\* dates of a request
MaxDates == 2

RECURSIVE DateSeqs(_)
DateSeqs(n) ==
  IF n = 0 THEN {<<>>}
  ELSE {Append(ds, d) : ds \in DateSeqs(n - 1), d \in {DateIso, DateNext}}

\* csvData: missing, one data row under the sample headers, the same without
\* a date in the title, or too few lines
PipelineCsvs ==
  {Undefined, JoinLines(<<TitleRange, HeaderSample, SubOne>>)}
    \cup {JoinLines(<<TitleRange, HeaderSample, SubOne, row>>) :
            row \in StoreRowLines}
    \cup {JoinLines(<<TitleNoDate, HeaderSample, SubOne, row>>) :
            row \in StoreRowLines}

\* the uploadMode values of the test page, or none
UploadModes == {Undefined, ModeUpsert, ModeInsert, ModeReplace}

\* req.body: csvData, uploadMode and, unless left out, an array of dates
PipelineBodies ==
  {[csvData |-> c, uploadMode |-> m] : c \in PipelineCsvs, m \in UploadModes}
    \cup {[csvData |-> c, uploadMode |-> m, dates |-> ds] :
            c \in PipelineCsvs, m \in UploadModes,
            ds \in UNION {DateSeqs(n) : n \in 0..MaxDates}}

\* the rows a stores query may return during a pipeline request
PipelineStoreTables == {rows \in StoreTables : Len(rows) <= 1}

\* !processingDates || !Array.isArray(processingDates)
noDates(b) == "dates" \notin DOMAIN b

\* const { csvData, dates, uploadMode = 'upsert' } = req.body
uploadModeOf(b) ==
  IF b.uploadMode = Undefined THEN ModeUpsert ELSE b.uploadMode

\* lines 762-770: the last 3 calendar days, today first
lastThreeDays(t) == <<Calendar[t], Calendar[t - 1], Calendar[t - 2]>>

\* lines 736-748: pipelineResults as declared
initialResults ==
  [status            |-> "running",
   stages            |-> [date_calculation |-> [status |-> "pending"],
                          transformation   |-> [status |-> "pending"],
                          upload           |-> [status |-> "pending"]],
   records_processed |-> 0,
   errors            |-> <<>>]

\* pipelineResults.stages[stage] = value
withStage(results, stage, entry) == [results EXCEPT !.stages[stage] = entry]

\* the catch block of a stage: the stage is marked failed and the error
\* recorded before it is thrown on
stageFailed(results, stage, message) ==
  [withStage(results, stage, [status |-> "failed", error |-> message])
     EXCEPT !.errors = Append(@, message)]

\* faulty variant: the outer catch leaves the status as it was
statusThrownKept(results) == results

\* lines 1013-1019: the outer catch marks the pipeline failed
statusThrown(results) == [results EXCEPT !.status = "failed"]

\* lines 1021-1027: the response of the outer catch
failureResponse(results, message) ==
  [status           |-> 500,
   success          |-> FALSE,
   pipeline_results |-> results,
   error            |-> "Pipeline execution failed",
   message          |-> message]

\* lines 999-1002: the pipeline is marked completed
statusCompleted(results, processed) ==
  [results EXCEPT !.status = "completed", !.records_processed = processed]

\* lines 1006-1011: the success response
successResponse(results) ==
  [status |-> 200, success |-> TRUE, pipeline_results |-> results]

\* lines 867-875: the object pushed to mappedData
pipelineRecord(record, id, processDate) ==
  [store_id         |-> id,
   date             |-> normalizeDateForStorageUTC(processDate),
   question         |-> record.question,
   score            |-> record.score,
   response_count   |-> record.response_count,
   response_percent |-> record.response_percent,
   total_responses  |-> record.total_responses]

\* lines 837-879: smgTransformedData.forEach from the k-th record on
RECURSIVE mapPipelineRecords(_, _, _, _)
mapPipelineRecords(records, rows, processDate, k) ==
  IF k > Len(records) THEN <<>>
  ELSE LET id == resolveStoreId(records[k].store_location, rows)
       IN  (IF Truthy(id)
            THEN <<pipelineRecord(records[k], id, processDate)>>
            ELSE <<>>)
           \o mapPipelineRecords(records, rows, processDate, k + 1)

\* lines 923-936: some record lacks a required field
pipelineInvalid(data) ==
  \E k \in 1..Len(data) :
    \/ ~Truthy(data[k].store_id)
    \/ ~Truthy(data[k].date)
    \/ ~Truthy(data[k].question)
    \/ data[k].score = 0

\* lines 976-983: the upload stage once the mode's branch is through
uploadCompleted(results, data, mode) ==
  withStage(results, "upload",
            [status           |-> "completed",
             records_uploaded |-> Len(data),
             upload_mode      |-> mode])

InitPipeline ==
  /\ pipelineBody \in PipelineBodies
  /\ today \in Todays
  /\ ppc = "start"
  /\ processingDates = <<>>
  /\ dateIndex = 0
  /\ allTransformedData = <<>>
  /\ pipelineResults = initialResults
  /\ pipelineOps = <<>>
  /\ pipelineResponse = NullObject
  /\ NoTransform
  /\ NoClean
  /\ NoDates
  /\ NoResolve
  /\ NoHandler
  /\ NoUpload
  /\ NoPair

\* lines 753-800: stage 1 computes the dates or is skipped; then a missing
\* csvData is thrown to the outer catch
DateCalculation ==
  /\ ppc = "start"
  /\ processingDates' = IF noDates(pipelineBody) THEN lastThreeDays(today)
                        ELSE pipelineBody.dates
  /\ LET staged == withStage(pipelineResults, "date_calculation",
                             IF noDates(pipelineBody)
                             THEN [status |-> "completed"]
                             ELSE [status |-> "skipped"])
     IN  IF ~Truthy(pipelineBody.csvData)
         THEN /\ pipelineResults' = statusThrown(staged)
              /\ pipelineResponse' =
                   failureResponse(pipelineResults',
                     "CSV data is required for pipeline execution")
              /\ ppc' = "done"
              /\ UNCHANGED dateIndex
         ELSE /\ pipelineResults' = staged
              /\ ppc' = "transform"
              /\ dateIndex' = 1
              /\ UNCHANGED pipelineResponse
  /\ UNCHANGED <<pipelineBody, today, allTransformedData, pipelineOps>>
  /\ UNCHANGED outsidePipeline

\* lines 808-812: transformSMGCSV(csvData, processDate) is called for the
\* next date
PipelineTransform ==
  /\ ppc = "transform"
  /\ dateIndex <= Len(processingDates)
  /\ csvContent' = pipelineBody.csvData
  /\ targetDate' = processingDates[dateIndex]
  /\ pc' = "start"
  /\ lines' = <<>>
  /\ dateInfo' = NullObject
  /\ metrics' = <<>>
  /\ i' = 0
  /\ transformedData' = <<>>
  /\ result' = NullObject
  /\ error' = Null
  /\ ppc' = "transforming"
  /\ UNCHANGED <<pipelineBody, today, processingDates, dateIndex,
                 allTransformedData, pipelineResults, pipelineOps,
                 pipelineResponse>>
  /\ UNCHANGED <<callerVars, cleanVars, dateVars, resolveVars, handlerVars,
                 uploadVars, pairVars>>

\* lines 897-905 and 1013-1028: what transformSMGCSV threw fails stage 2
PipelineTransformThrew ==
  /\ ppc = "transforming"
  /\ pc = "thrown"
  /\ pipelineResults' =
       statusThrown(stageFailed(pipelineResults, "transformation", error))
  /\ pipelineResponse' = failureResponse(pipelineResults', error)
  /\ ppc' = "done"
  /\ UNCHANGED <<pipelineBody, today, processingDates, dateIndex,
                 allTransformedData, pipelineOps>>
  /\ UNCHANGED outsidePipeline

\* lines 817-823: the stores query returns an error, which fails stage 2
PipelineStoresFailed ==
  /\ ppc = "transforming"
  /\ pc = "returned"
  /\ pipelineResults' =
       statusThrown(stageFailed(pipelineResults, "transformation",
                                "Store lookup failed"))
  /\ pipelineResponse' = failureResponse(pipelineResults',
                                         "Store lookup failed")
  /\ ppc' = "done"
  /\ UNCHANGED <<pipelineBody, today, processingDates, dateIndex,
                 allTransformedData, pipelineOps>>
  /\ UNCHANGED outsidePipeline

\* lines 817-882: the stores query returns rows, the records of this date are
\* mapped and appended
PipelineMapStores ==
  /\ ppc = "transforming"
  /\ pc = "returned"
  /\ \E rows \in PipelineStoreTables :
       allTransformedData' =
         allTransformedData
           \o mapPipelineRecords(result.value, rows,
                                 processingDates[dateIndex], 1)
  /\ dateIndex' = dateIndex + 1
  /\ ppc' = "transform"
  /\ UNCHANGED <<pipelineBody, today, processingDates, pipelineResults,
                 pipelineOps, pipelineResponse>>
  /\ UNCHANGED outsidePipeline

\* lines 885-893: the loop over the dates is over, stage 2 is completed
TransformationCompleted ==
  /\ ppc = "transform"
  /\ dateIndex > Len(processingDates)
  /\ pipelineResults' =
       withStage(pipelineResults, "transformation",
                 [status                |-> "completed",
                  smg_records_extracted |-> Len(allTransformedData),
                  dates_processed       |-> Len(processingDates)])
  /\ ppc' = "upload"
  /\ UNCHANGED <<pipelineBody, today, processingDates, dateIndex,
                 allTransformedData, pipelineOps, pipelineResponse>>
  /\ UNCHANGED outsidePipeline

\* lines 912-920 and 999-1011: nothing was mapped, stage 3 is skipped and the
\* pipeline completes
UploadSkipped ==
  /\ ppc = "upload"
  /\ Len(allTransformedData) = 0
  /\ pipelineResults' =
       statusCompleted(withStage(pipelineResults, "upload",
                                 [status |-> "skipped",
                                  reason |-> "no_data_to_upload"]), 0)
  /\ pipelineResponse' = successResponse(pipelineResults')
  /\ ppc' = "done"
  /\ UNCHANGED <<pipelineBody, today, processingDates, dateIndex,
                 allTransformedData, pipelineOps>>
  /\ UNCHANGED outsidePipeline

\* lines 922-936: the mapped records are validated
PipelineValidate ==
  /\ ppc = "upload"
  /\ Len(allTransformedData) > 0
  /\ IF pipelineInvalid(allTransformedData)
     THEN /\ pipelineResults' =
               statusThrown(stageFailed(pipelineResults, "upload",
                                        "Data validation failed"))
          /\ pipelineResponse' = failureResponse(pipelineResults',
                                                 "Data validation failed")
          /\ ppc' = "done"
     ELSE /\ ppc' = "write"
          /\ UNCHANGED <<pipelineResults, pipelineResponse>>
  /\ UNCHANGED <<pipelineBody, today, processingDates, dateIndex,
                 allTransformedData, pipelineOps>>
  /\ UNCHANGED outsidePipeline

\* the request ends after an operation on daily_cx_scores: with the error of
\* the operation, or with stage 3 and the pipeline completed
EndUpload(failed, message) ==
  /\ pipelineResults' =
       IF failed
       THEN statusThrown(stageFailed(pipelineResults, "upload", message))
       ELSE statusCompleted(uploadCompleted(pipelineResults,
                                            allTransformedData,
                                            uploadModeOf(pipelineBody)),
                            Len(allTransformedData))
  /\ pipelineResponse' =
       IF failed THEN failureResponse(pipelineResults', message)
       ELSE successResponse(pipelineResults')
  /\ ppc' = "done"

\* lines 940-949: upsert of all mapped records
PipelineUpsert ==
  /\ ppc = "write"
  /\ uploadModeOf(pipelineBody) = ModeUpsert
  /\ pipelineOps' = Append(pipelineOps, [op   |-> "upsert",
                                         rows |-> allTransformedData])
  /\ \E failed \in BOOLEAN : EndUpload(failed, "Upsert failed")
  /\ UNCHANGED <<pipelineBody, today, processingDates, dateIndex,
                 allTransformedData>>
  /\ UNCHANGED outsidePipeline

\* lines 951-962: replace mode deletes the rows of the dates and stores mapped
PipelineReplaceDelete ==
  /\ ppc = "write"
  /\ uploadModeOf(pipelineBody) = ModeReplace
  /\ pipelineOps' =
       Append(pipelineOps,
              [op       |-> "delete",
               dates    |-> Unique(allTransformedData, "date"),
               storeIds |-> Unique(allTransformedData, "store_id")])
  /\ \E failed \in BOOLEAN :
       IF failed THEN EndUpload(TRUE, "Delete failed")
       ELSE /\ ppc' = "insert"
            /\ UNCHANGED <<pipelineResults, pipelineResponse>>
  /\ UNCHANGED <<pipelineBody, today, processingDates, dateIndex,
                 allTransformedData>>
  /\ UNCHANGED outsidePipeline

\* lines 964-970: replace mode inserts the mapped records
PipelineReplaceInsert ==
  /\ ppc = "insert"
  /\ pipelineOps' = Append(pipelineOps, [op   |-> "insert",
                                         rows |-> allTransformedData])
  /\ \E failed \in BOOLEAN : EndUpload(failed, "Insert failed")
  /\ UNCHANGED <<pipelineBody, today, processingDates, dateIndex,
                 allTransformedData>>
  /\ UNCHANGED outsidePipeline

\* lines 940-986: neither branch is taken for any other uploadMode; stage 3
\* is completed all the same
PipelineNoWrite ==
  /\ ppc = "write"
  /\ uploadModeOf(pipelineBody) \notin {ModeUpsert, ModeReplace}
  /\ EndUpload(FALSE, "")
  /\ UNCHANGED <<pipelineBody, today, processingDates, dateIndex,
                 allTransformedData, pipelineOps>>
  /\ UNCHANGED outsidePipeline

NextPipeline ==
  \/ DateCalculation
  \/ PipelineTransform
  \/ Next
  \/ PipelineTransformThrew
  \/ PipelineStoresFailed
  \/ PipelineMapStores
  \/ TransformationCompleted
  \/ UploadSkipped
  \/ PipelineValidate
  \/ PipelineUpsert
  \/ PipelineReplaceDelete
  \/ PipelineReplaceInsert
  \/ PipelineNoWrite

SpecPipeline == InitPipeline /\ [][NextPipeline]_vars

(***************************************************************************)
(* POST /smg-pipeline of src/app.js                                        *)
(***************************************************************************)

\* csvData: missing, or a header line and one data row
AppCsvs ==
  {Undefined,
   <<"s","t","o","r","e","_","n","u","m","b","e","r",",","q","_","1","\n","1","2","3",",","4">>,
   <<"s","t","o","r","e","_","n","a","m","e",",","o","v","e","r","a","l","l","_","s","c","o","r","e","\n","M","a","i","n",",","6">>,
   <<"s","t","o","r","e",",","q","u","e","s","t","i","o","n"," ","2","\n","1","8","2","2",",","3",".","6","\r">>,
   <<"S","t","o","r","e"," ","N","u","m","b","e","r",",","Q","_","O","v","e","r","a","l","l","\n","1","2","3",",","5">>}

\* req.body: csvData, uploadMode and, unless left out, an array of dates
AppBodies ==
  {[csvData |-> c, uploadMode |-> m] : c \in AppCsvs, m \in UploadModes}
    \cup {[csvData |-> c, uploadMode |-> m, dates |-> ds] :
            c \in AppCsvs, m \in UploadModes,
            ds \in UNION {DateSeqs(n) : n \in 0..MaxDates}}

\* lines 636-638: rowData after headers.forEach has visited n headers
RECURSIVE rowDataUpTo(_, _, _)
rowDataUpTo(headers, values, n) ==
  IF n = 0 THEN <<>>
  ELSE MapSet(rowDataUpTo(headers, values, n - 1),
              ToLowerCase(headers[n]), At(values, n))

\* a || b
Either(a, b) == IF Truthy(a) THEN a ELSE b

\* lines 641-650: the store of a row, by its number or else by its name
appStoreId(rowData, byNumber, byName) ==
  LET storeNum  == Either(MapGet(rowData, <<"s","t","o","r","e","_","n","u","m","b","e","r">>),
                     Either(MapGet(rowData, <<"s","t","o","r","e"," ","n","u","m","b","e","r">>),
                            MapGet(rowData, <<"s","t","o","r","e">>)))
      storeName == Either(MapGet(rowData, <<"s","t","o","r","e","_","n","a","m","e">>),
                          MapGet(rowData, <<"s","t","o","r","e"," ","n","a","m","e">>))
      byNum     == IF Truthy(storeNum) THEN MapGet(byNumber, storeNum)
                   ELSE Null
  IN  IF ~Truthy(byNum) /\ Truthy(storeName)
      THEN MapGet(byName, ToLowerCase(storeName))
      ELSE byNum

\* first position from p on that holds neither an underscore nor white space
RECURSIVE SkipSeparators(_, _)
SkipSeparators(s, p) ==
  IF p <= Len(s) /\ s[p] \in WhiteSpace \cup {"_"}
  THEN SkipSeparators(s, p + 1)
  ELSE p

\* whether the word stands in key at position p, ignoring case
WordAt(key, p, word) ==
  /\ p + Len(word) - 1 <= Len(key)
  /\ ToLowerCase(SubSeq(key, p, p + Len(word) - 1)) = word

\* (\d+|overall|satisfaction) at position p, ignoring case; null if none
captureAt(key, p) ==
  IF DigitRunLen(key, p) > 0
  THEN SubSeq(key, p, p + DigitRunLen(key, p) - 1)
  ELSE IF WordAt(key, p, <<"o","v","e","r","a","l","l">>)
  THEN SubSeq(key, p, p + 6)
  ELSE IF WordAt(key, p, <<"s","a","t","i","s","f","a","c","t","i","o","n">>)
  THEN SubSeq(key, p, p + 11)
  ELSE Null

\* q(?:uestion)?[_\s]*(...) tried at position p: the group captured
matchAtQ(key, p) ==
  LET long  == IF WordAt(key, p + 1, <<"u","e","s","t","i","o","n">>)
               THEN captureAt(key, SkipSeparators(key, p + 8))
               ELSE Null
  IN  IF ToLowerChar(key[p]) # "q" THEN Null
      ELSE IF long # Null THEN long
      ELSE captureAt(key, SkipSeparators(key, p + 1))

\* key.match(/q(?:uestion)?[_\s]*(\d+|overall|satisfaction)/i)[1]: the
\* group of the leftmost match from position p on, null without a match
RECURSIVE questionMatch(_, _)
questionMatch(key, p) ==
  IF p > Len(key) THEN Null
  ELSE IF matchAtQ(key, p) # Null THEN matchAtQ(key, p)
  ELSE questionMatch(key, p + 1)

\* lines 660-663: the question text of the captured group
questionTextOf(group) ==
  IF group = <<"o","v","e","r","a","l","l">> THEN <<"O","v","e","r","a","l","l"," ","S","a","t","i","s","f","a","c","t","i","o","n">>
  ELSE IF group = <<"s","a","t","i","s","f","a","c","t","i","o","n">> THEN <<"S","a","t","i","s","f","a","c","t","i","o","n"," ","S","c","o","r","e">>
  ELSE <<"Q","u","e","s","t","i","o","n"," ">> \o group

\* parseInt of a cell: the digits after white space and a sign, NaN if none
ParseInt(s) ==
  LET p0   == SkipSpace(s, 1)
      sgn  == IF CharAt(s, p0) = "-" THEN -1 ELSE 1
      p1   == IF CharAt(s, p0) \in {"-", "+"} THEN p0 + 1 ELSE p0
      ilen == DigitRunLen(s, p1)
  IN  IF ilen = 0 THEN NaN
      ELSE Int2Num(sgn * DigitsVal(SubSeq(s, p1, p1 + ilen - 1)))

\* lines 656-680: the records pushed for one key of a row, at most one
keyRecords(rowData, key, id, processDate) ==
  LET cell  == MapGet(rowData, key)
      group == questionMatch(key, 1)
      score == ParseFloat(cell)
  IN  IF ~(Includes(key, <<"q","u","e","s","t","i","o","n">>) \/ Includes(key, <<"q","_">>)
             \/ Includes(key, <<"s","c","o","r","e">>))
      THEN <<>>
      ELSE IF group = Null \/ ~Truthy(cell) THEN <<>>
      ELSE IF isNaN(score) \/ LessThan(score, 1) \/ GreaterThan(score, 5)
      THEN <<>>
      ELSE <<[store_id         |-> id,
              date             |-> processDate,
              question         |-> questionTextOf(group),
              score            |-> MathRound(score),
              response_count   |->
                IF Truthy(MapGet(rowData, <<"r","e","s","p","o","n","s","e","_","c","o","u","n","t">>))
                THEN ParseInt(MapGet(rowData, <<"r","e","s","p","o","n","s","e","_","c","o","u","n","t">>))
                ELSE Int2Num(1),
              response_percent |->
                IF Truthy(MapGet(rowData, <<"r","e","s","p","o","n","s","e","_","p","e","r","c","e","n","t">>))
                THEN ParseFloat(MapGet(rowData, <<"r","e","s","p","o","n","s","e","_","p","e","r","c","e","n","t">>))
                ELSE NullObject,
              total_responses  |->
                IF Truthy(MapGet(rowData, <<"t","o","t","a","l","_","r","e","s","p","o","n","s","e","s">>))
                THEN ParseInt(MapGet(rowData, <<"t","o","t","a","l","_","r","e","s","p","o","n","s","e","s">>))
                ELSE NullObject]>>

\* lines 655-681: Object.keys(rowData).forEach from the k-th key on
RECURSIVE keysLoop(_, _, _, _)
keysLoop(rowData, id, processDate, k) ==
  IF k > Len(rowData) THEN <<>>
  ELSE keyRecords(rowData, rowData[k].key, id, processDate)
         \o keysLoop(rowData, id, processDate, k + 1)

\* lines 631-682: the data rows from the i-th line on (0-based, the header
\* line is line 0)
RECURSIVE appRowLoop(_, _, _, _, _)
appRowLoop(csvLines, headers, rows, processDate, n) ==
  IF n >= Len(csvLines) THEN <<>>
  ELSE LET values  == [k \in 1..Len(Split(csvLines[n + 1], ",")) |->
                         Trim(Split(csvLines[n + 1], ",")[k])]
           rowData == rowDataUpTo(headers, values, Len(headers))
           id      == appStoreId(rowData,
                                 storeByNumberUpTo(rows, Len(rows)),
                                 storeByNameUpTo(rows, Len(rows)))
       IN  (IF Truthy(id) THEN keysLoop(rowData, id, processDate, 1)
            ELSE <<>>)
           \o appRowLoop(csvLines, headers, rows, processDate, n + 1)

\* lines 608-682: transformedData of one processing date
appTransform(csv, rows, processDate) ==
  LET csvLines == Split(Trim(csv), "\n")
      cells    == Split(csvLines[1], ",")
      headers  == [k \in 1..Len(cells) |-> Trim(cells[k])]
  IN  appRowLoop(csvLines, headers, rows, processDate, 1)

InitApp ==
  /\ pipelineBody \in AppBodies
  /\ today \in Todays
  /\ ppc = "start"
  /\ processingDates = <<>>
  /\ dateIndex = 0
  /\ allTransformedData = <<>>
  /\ pipelineResults = initialResults
  /\ pipelineOps = <<>>
  /\ pipelineResponse = NullObject
  /\ NoTransform
  /\ NoClean
  /\ NoDates
  /\ NoResolve
  /\ NoHandler
  /\ NoUpload
  /\ NoPair

\* lines 805-808: the outer catch reads pipelineResults, a const of the try
\* block that is not in scope there; the ReferenceError ends the handler
\* before res.status(500).json is reached
CatchThrows ==
  /\ ppc' = "rejected"
  /\ UNCHANGED pipelineResponse

\* lines 535-596: stage 1 computes the dates or is skipped; then a missing
\* csvData is thrown to the outer catch
AppDateCalculation ==
  /\ ppc = "start"
  /\ processingDates' = IF noDates(pipelineBody) THEN lastThreeDays(today)
                        ELSE pipelineBody.dates
  /\ pipelineResults' = withStage(pipelineResults, "date_calculation",
                                  IF noDates(pipelineBody)
                                  THEN [status |-> "completed"]
                                  ELSE [status |-> "skipped"])
  /\ IF ~Truthy(pipelineBody.csvData)
     THEN /\ CatchThrows
          /\ UNCHANGED dateIndex
     ELSE /\ ppc' = "transform"
          /\ dateIndex' = 1
          /\ UNCHANGED pipelineResponse
  /\ UNCHANGED <<pipelineBody, today, allTransformedData, pipelineOps>>
  /\ UNCHANGED outsidePipeline

\* lines 614-620 and 697-705: the stores query of a date returns an error
AppStoresFailed ==
  /\ ppc = "transform"
  /\ dateIndex <= Len(processingDates)
  /\ pipelineResults' = stageFailed(pipelineResults, "transformation",
                                    "Store lookup failed")
  /\ CatchThrows
  /\ UNCHANGED <<pipelineBody, today, processingDates, dateIndex,
                 allTransformedData, pipelineOps>>
  /\ UNCHANGED outsidePipeline

\* lines 604-684: the stores query of a date returns rows, the CSV rows are
\* transformed for the date and appended
AppTransformDate ==
  /\ ppc = "transform"
  /\ dateIndex <= Len(processingDates)
  /\ \E rows \in PipelineStoreTables :
       allTransformedData' =
         allTransformedData
           \o appTransform(pipelineBody.csvData, rows,
                           processingDates[dateIndex])
  /\ dateIndex' = dateIndex + 1
  /\ UNCHANGED <<pipelineBody, today, ppc, processingDates, pipelineResults,
                 pipelineOps, pipelineResponse>>
  /\ UNCHANGED outsidePipeline

\* lines 687-693: the loop over the dates is over, stage 2 is completed
AppTransformationCompleted ==
  /\ ppc = "transform"
  /\ dateIndex > Len(processingDates)
  /\ pipelineResults' =
       withStage(pipelineResults, "transformation",
                 [status           |-> "completed",
                  transformed_rows |-> Len(allTransformedData),
                  dates_processed  |-> Len(processingDates)])
  /\ ppc' = "upload"
  /\ UNCHANGED <<pipelineBody, today, processingDates, dateIndex,
                 allTransformedData, pipelineOps, pipelineResponse>>
  /\ UNCHANGED outsidePipeline

\* lines 711-730 and 781-789: no record to upload, or an invalid one, is
\* thrown; otherwise the upload goes on
AppValidate ==
  /\ ppc = "upload"
  /\ IF Len(allTransformedData) = 0
     THEN /\ pipelineResults' =
               stageFailed(pipelineResults, "upload",
                           "No data to upload after transformation")
          /\ CatchThrows
     ELSE IF pipelineInvalid(allTransformedData)
     THEN /\ pipelineResults' = stageFailed(pipelineResults, "upload",
                                            "Data validation failed")
          /\ CatchThrows
     ELSE /\ ppc' = "write"
          /\ UNCHANGED <<pipelineResults, pipelineResponse>>
  /\ UNCHANGED <<pipelineBody, today, processingDates, dateIndex,
                 allTransformedData, pipelineOps>>
  /\ UNCHANGED outsidePipeline

\* the request ends after an operation on daily_cx_scores: its error is
\* thrown, or stage 3 and the pipeline are completed and 200 is sent
AppEndUpload(failed, message) ==
  IF failed
  THEN /\ pipelineResults' = stageFailed(pipelineResults, "upload", message)
       /\ CatchThrows
  ELSE /\ pipelineResults' =
            statusCompleted(uploadCompleted(pipelineResults,
                                            allTransformedData,
                                            uploadModeOf(pipelineBody)),
                            Len(allTransformedData))
       /\ pipelineResponse' = successResponse(pipelineResults')
       /\ ppc' = "done"

\* lines 734-743: upsert of all records
AppUpsert ==
  /\ ppc = "write"
  /\ uploadModeOf(pipelineBody) = ModeUpsert
  /\ pipelineOps' = Append(pipelineOps, [op   |-> "upsert",
                                         rows |-> allTransformedData])
  /\ \E failed \in BOOLEAN : AppEndUpload(failed, "Upsert failed")
  /\ UNCHANGED <<pipelineBody, today, processingDates, dateIndex,
                 allTransformedData>>
  /\ UNCHANGED outsidePipeline

\* lines 745-756: replace mode deletes the rows of the dates and stores
AppReplaceDelete ==
  /\ ppc = "write"
  /\ uploadModeOf(pipelineBody) = ModeReplace
  /\ pipelineOps' =
       Append(pipelineOps,
              [op       |-> "delete",
               dates    |-> Unique(allTransformedData, "date"),
               storeIds |-> Unique(allTransformedData, "store_id")])
  /\ \E failed \in BOOLEAN :
       IF failed THEN AppEndUpload(TRUE, "Delete failed")
       ELSE /\ ppc' = "insert"
            /\ UNCHANGED <<pipelineResults, pipelineResponse>>
  /\ UNCHANGED <<pipelineBody, today, processingDates, dateIndex,
                 allTransformedData>>
  /\ UNCHANGED outsidePipeline

\* lines 758-764: replace mode inserts the records
AppReplaceInsert ==
  /\ ppc = "insert"
  /\ pipelineOps' = Append(pipelineOps, [op   |-> "insert",
                                         rows |-> allTransformedData])
  /\ \E failed \in BOOLEAN : AppEndUpload(failed, "Insert failed")
  /\ UNCHANGED <<pipelineBody, today, processingDates, dateIndex,
                 allTransformedData>>
  /\ UNCHANGED outsidePipeline

\* lines 733-803: neither branch is taken for any other uploadMode
AppNoWrite ==
  /\ ppc = "write"
  /\ uploadModeOf(pipelineBody) \notin {ModeUpsert, ModeReplace}
  /\ AppEndUpload(FALSE, "")
  /\ UNCHANGED <<pipelineBody, today, processingDates, dateIndex,
                 allTransformedData, pipelineOps>>
  /\ UNCHANGED outsidePipeline

NextApp ==
  \/ AppDateCalculation
  \/ AppStoresFailed
  \/ AppTransformDate
  \/ AppTransformationCompleted
  \/ AppValidate
  \/ AppUpsert
  \/ AppReplaceDelete
  \/ AppReplaceInsert
  \/ AppNoWrite

\* the handler runs on: every await is settled and every continuation is
\* scheduled by the event loop
SpecApp == InitApp /\ [][NextApp]_vars /\ WF_vars(NextApp)

\* C28: every POST /smg-pipeline request handled by src/app.js eventually
\* receives a response: 200 with pipeline status completed, or 500 with
\* pipeline status failed when a stage throws
C28_Original ==
  <>(/\ pipelineResponse # NullObject
     /\ \/ /\ pipelineResponse.status = 200
           /\ pipelineResponse.pipeline_results.status = "completed"
        \/ /\ pipelineResponse.status = 500
           /\ pipelineResponse.pipeline_results.status = "failed")

(***************************************************************************)
(* Two requests that each run transformSMGCSV                              *)
(***************************************************************************)

\* the CSV of a request: the sample, another layout without a date in the
\* title, or too few lines
PairCsvs ==
  {JoinLines(<<TitleRange, HeaderSample, SubOne, RowSample>>),
   JoinLines(<<TitleNoDate, HeaderWide, SubMixed, RowNoLabel>>),
   JoinLines(<<TitleRange, HeaderSample>>)}

\* the dates a request passes to its calls, one call after the other: the
\* date of a POST /smg-transform body, the processing dates of a pipeline
PairDates == {<<DateIso>>, <<DateIso, DateNext>>}

\* a request before its first call
PairRequests ==
  {[csv |-> c, dates |-> ds, held |-> <<>>, followed |-> <<>>] :
     c \in PairCsvs, ds \in PairDates}

\* what a call leaves to its caller, and the metric list it built
PairOutcome ==
  [pc |-> pc, metrics |-> metrics, result |-> result, error |-> error]

\* a thrown call ends its request; otherwise one call per date
callsOver(dates, outcomes) ==
  \/ Len(outcomes) = Len(dates)
  \/ Len(outcomes) > 0 /\ outcomes[Len(outcomes)].pc = "thrown"

InitPair ==
  /\ requests \in [1..2 -> PairRequests]
  /\ running = 0
  /\ alone = [outcomes |-> <<>>, complete |-> FALSE]
  /\ NoTransform
  /\ NoClean
  /\ NoDates
  /\ NoResolve
  /\ NoHandler
  /\ NoUpload
  /\ NoPipeline

\* faulty variant: one metric list is shared by all calls
metricsShared(old) == old

\* each call of parseHeaders builds its metric list from an empty array
metricsFresh(old) == <<>>

\* lines 156-198: a call binds its parameters and creates its locals
EnterTransform(csv, fallback) ==
  /\ csvContent' = csv
  /\ targetDate' = fallback
  /\ pc' = "start"
  /\ lines' = <<>>
  /\ dateInfo' = NullObject
  /\ metrics' = metricsFresh(metrics)
  /\ i' = 0
  /\ transformedData' = transformedDataFresh(transformedData)
  /\ result' = NullObject
  /\ error' = Null

\* the call has handed its outcome to its caller; its locals are garbage
LeaveTransform ==
  /\ pc' = "none"
  /\ UNCHANGED <<csvContent, targetDate, lines, dateInfo, metrics, i,
                 transformedData, result, error>>

\* the first request's calls made with no other request in the process
AloneCall ==
  /\ ~alone.complete
  /\ pc = "none"
  /\ EnterTransform(requests[1].csv,
                    requests[1].dates[Len(alone.outcomes) + 1])
  /\ UNCHANGED <<calls, earlier, cleanVars, dateVars, resolveVars,
                 handlerVars, uploadVars, pipelineVars, pairVars>>

AloneReturn ==
  /\ ~alone.complete
  /\ pc \in {"returned", "thrown"}
  /\ LET outcomes == Append(alone.outcomes, PairOutcome)
     IN  alone' = [outcomes |-> outcomes,
                   complete |-> callsOver(requests[1].dates, outcomes)]
  /\ LeaveTransform
  /\ UNCHANGED <<calls, earlier, cleanVars, dateVars, resolveVars,
                 handlerVars, uploadVars, pipelineVars, requests, running>>

\* part_000 lines 457-460 and 808-812: request k, on the event loop with no
\* other handler on the stack, calls transformSMGCSV
RequestCall(k) ==
  /\ alone.complete
  /\ running = 0
  /\ pc = "none"
  /\ ~callsOver(requests[k].dates, requests[k].held)
  /\ running' = k
  /\ requests' = [requests EXCEPT ![k].followed = Append(@, csvContent)]
  /\ EnterTransform(requests[k].csv,
                    requests[k].dates[Len(requests[k].held) + 1])
  /\ UNCHANGED <<calls, earlier, cleanVars, dateVars, resolveVars,
                 handlerVars, uploadVars, pipelineVars, alone>>

\* part_000 lines 462-487 and 817-823: the call is over, request k keeps
\* what it returned and is suspended at its await of the stores query (or
\* has answered 500), and the event loop is free for the other request
RequestAwait(k) ==
  /\ running = k
  /\ pc \in {"returned", "thrown"}
  /\ requests' = [requests EXCEPT ![k].held = Append(@, PairOutcome)]
  /\ running' = 0
  /\ LeaveTransform
  /\ UNCHANGED <<calls, earlier, cleanVars, dateVars, resolveVars,
                 handlerVars, uploadVars, pipelineVars, alone>>

NextPair ==
  \/ Next
  \/ AloneCall
  \/ AloneReturn
  \/ \E k \in 1..2 : RequestCall(k)
  \/ \E k \in 1..2 : RequestAwait(k)

SpecPair == InitPair /\ [][NextPair]_vars

C30_Original ==
  (hpc = "done" /\ response.status = 200) =>
    /\ ~isNaN(response.mapping_success_rate)
    /\ response.mapping_success_rate.den = 1
    /\ response.mapping_success_rate.num \in 0..100

\* the position, among the retained rows, of the row the k-th returned record
\* was emitted for
RowOfRecord(k) == (k - 1) \div (5 * Len(metrics))

\* C29: among the records transformSMGCSV emits for one data row no two
\* share the pair (metric_name, score), also when two n markers stand under
\* one carried-forward category
C29_Original ==
  pc = "returned" =>
    \A k1, k2 \in 1..Len(result.value) :
      (k1 < k2 /\ RowOfRecord(k1) = RowOfRecord(k2)) =>
        <<result.value[k1].metric_name, result.value[k1].score>>
          # <<result.value[k2].metric_name, result.value[k2].score>>

\* the request of the upload handler is a replace request with data
ReplaceRequest == ~noData(body) /\ modeOf(body.mode) = ModeReplace

\* some record sent has the row's store_id together with the row's date
PairSent(row) ==
  \E k \in 1..Len(body.data) :
    body.data[k].store_id = row.store_id /\ body.data[k].date = row.date

\* C22: in replace mode only rows whose (store_id, date) pair occurs in a
\* record sent are deleted; a row whose store_id and date occur in the data
\* only in different records stays in the table
C22_Original ==
  (ReplaceRequest /\ upc \in {"insert", "done"}) =>
    \A row \in tableBefore \ table : PairSent(row)

\* the operation is a write of all the records of the request
WritesAll(op) ==
  IF op.op \in {"upsert", "insert"} THEN op.rows = body.data ELSE FALSE

\* C25: POST /smg-upload answers success: true only after a write of all the
\* records of the request was issued, and never for a mode other than upsert,
\* insert and replace
C25_Original ==
  (upc = "done" /\ uploadResponse.status = 200) =>
    /\ modeOf(body.mode) \in {ModeUpsert, ModeInsert, ModeReplace}
    /\ \E k \in 1..Len(dbOps) : WritesAll(dbOps[k])

\* C27: a replace request answered with an error leaves the table as it was
\* when the request arrived
C27_Original ==
  (ReplaceRequest /\ upc = "done" /\ uploadResponse.status # 200) =>
    table = tableBefore

\* the rows of the k-th operation on daily_cx_scores if it is a write
WrittenRows(k) ==
  IF pipelineOps[k].op \in {"upsert", "insert"} THEN pipelineOps[k].rows
  ELSE <<>>

\* the date range of the title line of the request's CSV, null without one
TitleDates == extractDate(Get(splitLines(pipelineBody.csvData), 0))

\* C23: for a CSV whose title line carries a date range every record the
\* pipeline uploads has the canonicalized start date of the title, the date
\* POST /smg-transform gives it, and no resolved record is uploaded twice,
\* whatever the number of processing dates
C23_Original ==
  \A k \in 1..Len(pipelineOps) :
    TitleDates # NullObject =>
      LET rows == WrittenRows(k)
      IN  /\ \A n \in 1..Len(rows) :
               rows[n].date = normalizeDateForStorageUTC(TitleDates.startDate)
          /\ \A n1, n2 \in 1..Len(rows) :
               n1 < n2 => [rows[n1] EXCEPT !.date = <<>>]
                            # [rows[n2] EXCEPT !.date = <<>>]

\* records_uploaded of the upload stage, 0 unless the stage is completed
RecordsUploaded ==
  IF pipelineResults.stages.upload.status = "completed"
  THEN pipelineResults.stages.upload.records_uploaded
  ELSE 0

\* C24: when the upload stage of POST /smg-pipeline ends completed with
\* records_uploaded = N > 0, an upsert or insert of those N records was
\* issued, for each uploadMode of the test page (upsert, insert, replace)
C24_Original ==
  (ppc = "done" /\ RecordsUploaded > 0) =>
    \E k \in 1..Len(pipelineOps) :
      /\ WrittenRows(k) = allTransformedData
      /\ Len(WrittenRows(k)) = RecordsUploaded

\* the status of a stage of pipelineResults
StageStatus(stage) == pipelineResults.stages[stage].status

\* the stage is completed or skipped
Settled(stage) == StageStatus(stage) \in {"completed", "skipped"}

\* the stages in their order
StageOrder == <<"date_calculation", "transformation", "upload">>

\* C26: the stages date_calculation, transformation, upload progress in that
\* order: a stage leaves pending only after every earlier stage is completed
\* or skipped; once a stage is failed or the request has thrown, every later
\* stage is pending and the final status is failed; the final status is
\* completed only if every stage is completed or skipped; no write to
\* daily_cx_scores is issued before transformation is completed
C26_StageOrder ==
  ppc # "none" =>
    /\ \A n \in 1..3 :
         StageStatus(StageOrder[n]) # "pending" =>
           \A m \in 1..(n - 1) : Settled(StageOrder[m])
    /\ \A n \in 1..3 :
         StageStatus(StageOrder[n]) = "failed" =>
           /\ \A m \in (n + 1)..3 : StageStatus(StageOrder[m]) = "pending"
           /\ ppc = "done"
           /\ pipelineResults.status = "failed"
    /\ (ppc = "done" /\ pipelineResponse.status = 500) =>
         /\ pipelineResults.status = "failed"
         /\ pipelineResponse.pipeline_results.status = "failed"
         /\ \E n \in 1..3 :
              /\ \A m \in 1..(n - 1) : Settled(StageOrder[m])
              /\ \A m \in (n + 1)..3 : StageStatus(StageOrder[m]) = "pending"
              /\ StageStatus(StageOrder[n]) \in {"failed", "pending"}
    /\ pipelineResults.status = "completed" =>
         \A n \in 1..3 : Settled(StageOrder[n])
    /\ ppc = "done" => pipelineResults.status \in {"completed", "failed"}
    /\ pipelineOps # <<>> => StageStatus("transformation") = "completed"

\* C26 witness: a request without dates whose second stores query failed
\* ended failed, with date_calculation completed, transformation failed and
\* upload pending
C26_Witness ==
  /\ ppc = "done"
  /\ noDates(pipelineBody)
  /\ dateIndex = 2
  /\ StageStatus("date_calculation") = "completed"
  /\ StageStatus("transformation") = "failed"
  /\ StageStatus("upload") = "pending"
  /\ pipelineResults.status = "failed"
  /\ pipelineResponse.status = 500

====
